---- MODULE Spec2Model ----
(***************************************************************************)
(* Rollback-aware node-graph mutation layer of the OPC-UA plugin server    *)
(* (src/app/ua_utils.c) and the plugin constructors that drive it.         *)
(*                                                                         *)
(* The graph store (open62541) is the environment: it is modelled by the   *)
(* set of node ids it holds, the parent of each node and the head of the   *)
(* custom data-type registry of its configuration.  Whether the store      *)
(* accepts a creation or a deletion and whether an allocation succeeds is  *)
(* chosen by the environment.                                              *)
(***************************************************************************)
EXTENDS Integers, Sequences, FiniteSets, TLC

(* ------------------------------ bounds --------------------------------- *)

\* node ids a construction attempt may create are 1..MaxNodes
MaxNodes == 3

\* number of construction attempts made one after the other
MaxAttempts == 2

(* --------------------------- value universe ---------------------------- *)

\* UA_NODEID_NULL; a requested id with identifier 0 asks the store to pick one
NullId == 0

\* the nodes of namespace 0 that exist before any plugin runs; the plugins
\* hang their top-level objects below the Objects folder
NS0Nodes == {85}

NodeIds == 1..MaxNodes

AllIds == NodeIds \cup NS0Nodes

\* UA_StatusCode values the code can see
Good == "Good"
Bad == "Bad"
BadOutOfMemory == "BadOutOfMemory"
BadNodeIdExists == "BadNodeIdExists"
BadParentNodeIdInvalid == "BadParentNodeIdInvalid"
BadNodeIdUnknown == "BadNodeIdUnknown"
BadInternalError == "BadInternalError"

\* failures of the store that do not follow from the modelled graph
StoreRejections == {BadOutOfMemory, BadInternalError}

\* ua_status |= x  with the 32-bit codes: GOOD is 0, so OR-ing with GOOD
\* keeps the other operand; two bad codes merge into a bad code
StatusOr(a, b) ==
  IF a = Good THEN b
  ELSE IF b = Good THEN a
  ELSE IF a = b THEN a
  ELSE Bad

\* the registry head is a chain of type arrays; NULL is the empty chain
NullCdt == <<>>

\* rollback_data_t *  (ua_utils.h); `allocated = FALSE` is the NULL pointer
NullRbd == [allocated |-> FALSE, saved_cdt |-> NullCdt, node_ids |-> <<>>]

\* g_new0(rollback_data_t, 1)
NewRbd == [allocated |-> TRUE, saved_cdt |-> NullCdt, node_ids |-> <<>>]

\* outcomes of the two allocations in add_nodeid_to_rbd
MemOutcomes == {"ok", "new_null", "copy_fails"}

Range(s) == {s[i] : i \in 1..Len(s)}

RECURSIVE Reverse(_)
Reverse(s) == IF s = <<>> THEN <<>> ELSE Reverse(Tail(s)) \o <<Head(s)>>

VARIABLES
  nodes,            \* ids of the nodes in the graph store
  parentOf,         \* parent of each node in the store (NullId if none)
  customDataTypes,  \* UA_ServerConfig.customDataTypes
  rbd,              \* plugin->rbd of the attempt in progress
  pc,               \* position of the constructor
  attempt,          \* number of attempts started
  created,          \* [id, parent] of the nodes the store created in this
                    \* attempt, oldest first
  pre_nodes,        \* nodes when the attempt started
  pre_cdt,          \* customDataTypes when the attempt started
  swapped,          \* the attempt replaced the registry
  rb_calls,         \* calls the executor issued to the store, in order
  rb_ret,           \* [ret, err] of the last ua_utils_do_rollback
  last_call,        \* the last facade call and what came of it
  inst,             \* per plugin: its static `plugin` pointer, its ledger
                    \* and the non-graph resources it holds
  cur,              \* the plugin whose constructor is running
  step,             \* the next step of that constructor
  sticky,           \* the status a builder loop accumulates with |=
  step_ids,         \* the node id each step of the constructor obtained
  trace,            \* what the running constructor did about its ledger
  gerr,             \* the GError the constructor hands back is set
  order,            \* the plugins the host has tried, in order, and how
                    \* each attempt ended
  active,           \* ctx->plugins
  host,             \* the host's app_context_t and its position in main()
  destroy_log,      \* the calls of opc_ua_destroy and what each did
  thr,              \* per thread: the callback or handler it runs, its
                    \* position in it and its locals
  iop_mtx,          \* the thread that holds plugin->iop_mtx of ioports
  iop_ht,           \* the cached record of an I/O port in plugin->iop_ht
  heap,             \* the live blocks of the cached strings
  vin_states,       \* plugin->vin_states of vinput
  event,            \* the AXEvent handle delivered last
  access_level,     \* the access level of the State property of the port
  thermal,          \* plugin->cb_id, counter and curl_mutex of thermal, its
                    \* timer and the position of its two callbacks
  vin_reply         \* the last call of a client on a virtual input: what
                    \* the device answered, the status returned and the
                    \* cache before and after

host_vars == <<host, destroy_log>>

plugin_vars ==
  <<inst, cur, step, sticky, step_ids, trace, gerr, order, active, host_vars>>

ext_vars == <<access_level, thermal, vin_reply>>

cb_vars == <<thr, iop_mtx, iop_ht, heap, vin_states, event, ext_vars>>

vars == <<nodes, parentOf, customDataTypes, rbd, pc, attempt, created,
          pre_nodes, pre_cdt, swapped, rb_calls, rb_ret, last_call,
          inst, cur, step, sticky, step_ids, trace, gerr, order, active,
          host, destroy_log, thr, iop_mtx, iop_ht, heap, vin_states, event,
          access_level, thermal, vin_reply>>

(* ---------------------------- graph store ------------------------------ *)

\* UA_Server_add*Node as the facade calls it: `env` is Good or the code of a
\* rejection, `fresh` the id the store generates when none is requested
UA_Server_addNode(ns, requested, parentId, env, fresh) ==
  IF env # Good THEN [status |-> env, id |-> NullId]
  ELSE IF parentId \notin ns
    THEN [status |-> BadParentNodeIdInvalid, id |-> NullId]
  ELSE IF requested # NullId /\ requested \in ns
    THEN [status |-> BadNodeIdExists, id |-> NullId]
  ELSE [status |-> Good,
        id |-> IF requested = NullId THEN fresh ELSE requested]

\* UA_Server_deleteNode(server, id, TRUE) as the executor calls it
UA_Server_deleteNode(ns, id, env) ==
  IF id \notin ns THEN BadNodeIdUnknown ELSE env

(* --------------------------- rollback ledger --------------------------- *)

\* the ledger appended to at its tail instead of prepended to
add_nodeid_to_rbd_append(node_id, r, mem) ==
  IF mem = "new_null" THEN [status |-> BadOutOfMemory, rbd |-> r]
  ELSE IF mem = "copy_fails" THEN [status |-> BadOutOfMemory, rbd |-> r]
  ELSE [status |-> Good,
        rbd |-> [r EXCEPT !.node_ids = @ \o <<node_id>>]]

add_nodeid_to_rbd(node_id, r, mem) ==
  IF mem = "new_null" THEN [status |-> BadOutOfMemory, rbd |-> r]
  ELSE IF mem = "copy_fails" THEN [status |-> BadOutOfMemory, rbd |-> r]
  ELSE [status |-> Good,
        rbd |-> [r EXCEPT !.node_ids = <<node_id>> \o @]]

\* the structure released without its list of node ids
ua_utils_clear_rbd_shallow(r) ==
  IF ~r.allocated THEN r ELSE [r EXCEPT !.allocated = FALSE]

ua_utils_clear_rbd(r) ==
  IF ~r.allocated THEN r ELSE NullRbd

(* --------------------------- rollback executor ------------------------- *)

\* a GError that is not set; `status` is the status code whose name the
\* message carries and `id` the node id it names (NullId: none)
NoError == [set |-> FALSE, msg |-> "", status |-> Good, id |-> NullId]

\* the while loop of ua_utils_do_rollback over the list `l`, which is walked
\* from its first element; `k` counts the delete calls issued so far and
\* `env` names the call the store refuses (at = 0: none) and with which code
RECURSIVE rollback_loop(_, _, _, _, _)
rollback_loop(l, ns, par, k, env) ==
  IF l = <<>>
    THEN [ret |-> TRUE, nodes |-> ns, parentOf |-> par, calls |-> <<>>,
          err |-> NoError]
    ELSE
      LET id == Head(l)
          st == UA_Server_deleteNode(ns, id,
                                     IF env.at = k + 1 THEN env.code ELSE Good)
          call == [op |-> "deleteNode", id |-> id]
      IN IF st # Good
           THEN [ret |-> FALSE, nodes |-> ns, parentOf |-> par,
                 calls |-> <<call>>,
                 err |-> [set |-> TRUE,
                          msg |-> "UA_Server_deleteNode() failed",
                          status |-> st, id |-> NullId]]
           ELSE
             LET rest == rollback_loop(Tail(l), ns \ {id},
                                       [par EXCEPT ![id] = NullId],
                                       k + 1, env)
             IN [rest EXCEPT !.calls = <<call>> \o @]

\* the registry restored after the nodes were deleted
ua_utils_do_rollback_restore_last(ns, par, cdt, r, env) ==
  LET restore == r.saved_cdt # NullCdt
      loop == rollback_loop(r.node_ids, ns, par, 0, env)
  IN [ret |-> loop.ret,
      err |-> loop.err,
      nodes |-> loop.nodes,
      parentOf |-> loop.parentOf,
      customDataTypes |-> IF restore THEN r.saved_cdt ELSE cdt,
      calls |-> loop.calls \o
                (IF restore
                   THEN <<[op |-> "set_customDataTypes", id |-> NullId]>>
                   ELSE <<>>)]

\* the registry restored from the ledger whether or not the ledger saved one
ua_utils_do_rollback_restore_always(ns, par, cdt, r, env) ==
  LET loop == rollback_loop(r.node_ids, ns, par, 0, env)
  IN [ret |-> loop.ret,
      err |-> loop.err,
      nodes |-> loop.nodes,
      parentOf |-> loop.parentOf,
      customDataTypes |-> r.saved_cdt,
      calls |-> <<[op |-> "set_customDataTypes", id |-> NullId]>>
                \o loop.calls]

\* the executor walking a ledger that kept an entry of an earlier attempt
ua_utils_do_rollback_shared_ledger(ns, par, cdt, r, env) ==
  LET restore == r.saved_cdt # NullCdt
      others == ns \ (NS0Nodes \cup Range(r.node_ids))
      l == IF others = {} THEN r.node_ids
           ELSE Append(r.node_ids, CHOOSE n \in others : TRUE)
      loop == rollback_loop(l, ns, par, 0, env)
  IN [ret |-> loop.ret,
      err |-> loop.err,
      nodes |-> loop.nodes,
      parentOf |-> loop.parentOf,
      customDataTypes |-> IF restore THEN r.saved_cdt ELSE cdt,
      calls |-> (IF restore
                   THEN <<[op |-> "set_customDataTypes", id |-> NullId]>>
                   ELSE <<>>) \o loop.calls]

ua_utils_do_rollback(ns, par, cdt, r, env) ==
  LET restore == r.saved_cdt # NullCdt
      loop == rollback_loop(r.node_ids, ns, par, 0, env)
  IN [ret |-> loop.ret,
      err |-> loop.err,
      nodes |-> loop.nodes,
      parentOf |-> loop.parentOf,
      customDataTypes |-> IF restore THEN r.saved_cdt ELSE cdt,
      calls |-> (IF restore
                   THEN <<[op |-> "set_customDataTypes", id |-> NullId]>>
                   ELSE <<>>) \o loop.calls]

(* --------------------------- mutation facade --------------------------- *)

\* common shape of the result of a facade call: the status it returns, the
\* store and the ledger after it, the output slot and what the store said
facade_result(st, ns, par, r, out, store) ==
  [status |-> st, nodes |-> ns, parentOf |-> par, rbd |-> r, out |-> out,
   store |-> store]

\* env = [store, fresh, mem]: the store's verdict, the id it generates and
\* the outcome of the ledger's allocations
UA_Server_addObjectNode_rb(ns, par, requested, parentId, r, wantOut, env) ==
  LET s == UA_Server_addNode(ns, requested, parentId, env.store, env.fresh)
  IN IF s.status = Good
       THEN LET a == add_nodeid_to_rbd(s.id, r, env.mem)
            IN facade_result(StatusOr(s.status, a.status),
                             ns \cup {s.id},
                             [par EXCEPT ![s.id] = parentId],
                             a.rbd,
                             IF wantOut THEN s.id ELSE NullId, s)
       ELSE facade_result(s.status, ns, par, r, NullId, s)

UA_Server_addDataTypeNode_rb(ns, par, requested, parentId, r, wantOut, env) ==
  LET s == UA_Server_addNode(ns, requested, parentId, env.store, env.fresh)
  IN IF s.status = Good
       THEN LET a == add_nodeid_to_rbd(s.id, r, env.mem)
            IN facade_result(StatusOr(s.status, a.status),
                             ns \cup {s.id},
                             [par EXCEPT ![s.id] = parentId],
                             a.rbd,
                             IF wantOut THEN s.id ELSE NullId, s)
       ELSE facade_result(s.status, ns, par, r, NullId, s)

UA_Server_addVariableNode_rb(ns, par, requested, parentId, r, wantOut, env) ==
  LET s == UA_Server_addNode(ns, requested, parentId, env.store, env.fresh)
  IN IF s.status = Good
       THEN LET a == add_nodeid_to_rbd(s.id, r, env.mem)
            IN facade_result(StatusOr(s.status, a.status),
                             ns \cup {s.id},
                             [par EXCEPT ![s.id] = parentId],
                             a.rbd,
                             IF wantOut THEN s.id ELSE NullId, s)
       ELSE facade_result(s.status, ns, par, r, NullId, s)

UA_Server_addObjectTypeNode_rb(ns, par, requested, parentId, r, wantOut, env) ==
  LET s == UA_Server_addNode(ns, requested, parentId, env.store, env.fresh)
  IN IF s.status = Good
       THEN LET a == add_nodeid_to_rbd(s.id, r, env.mem)
            IN facade_result(StatusOr(s.status, a.status),
                             ns \cup {s.id},
                             [par EXCEPT ![s.id] = parentId],
                             a.rbd,
                             IF wantOut THEN s.id ELSE NullId, s)
       ELSE facade_result(s.status, ns, par, r, NullId, s)

\* the store's code replaced by the generic failure code
UA_Server_addMethodNode_rb_translated(ns, par, requested, parentId, r, wantOut, env) ==
  LET s == UA_Server_addNode(ns, requested, parentId, env.store, env.fresh)
  IN IF s.status = Good
       THEN LET a == add_nodeid_to_rbd(s.id, r, env.mem)
            IN facade_result(StatusOr(s.status, a.status),
                             ns \cup {s.id},
                             [par EXCEPT ![s.id] = parentId],
                             a.rbd,
                             IF wantOut THEN s.id ELSE NullId, s)
       ELSE facade_result(Bad, ns, par, r, NullId, s)

UA_Server_addMethodNode_rb(ns, par, requested, parentId, r, wantOut, env) ==
  LET s == UA_Server_addNode(ns, requested, parentId, env.store, env.fresh)
  IN IF s.status = Good
       THEN LET a == add_nodeid_to_rbd(s.id, r, env.mem)
            IN facade_result(StatusOr(s.status, a.status),
                             ns \cup {s.id},
                             [par EXCEPT ![s.id] = parentId],
                             a.rbd,
                             IF wantOut THEN s.id ELSE NullId, s)
       ELSE facade_result(s.status, ns, par, r, NullId, s)

NodeKinds == {"Object", "DataType", "Variable", "ObjectType", "Method"}

\* the wrapper for a node kind
facade(kind, ns, par, requested, parentId, r, wantOut, env) ==
  CASE kind = "Object" ->
         UA_Server_addObjectNode_rb(ns, par, requested, parentId, r, wantOut, env)
    [] kind = "DataType" ->
         UA_Server_addDataTypeNode_rb(ns, par, requested, parentId, r, wantOut, env)
    [] kind = "Variable" ->
         UA_Server_addVariableNode_rb(ns, par, requested, parentId, r, wantOut, env)
    [] kind = "ObjectType" ->
         UA_Server_addObjectTypeNode_rb(ns, par, requested, parentId, r, wantOut, env)
    [] kind = "Method" ->
         UA_Server_addMethodNode_rb(ns, par, requested, parentId, r, wantOut, env)

(* ------------------------ the shipped plugins -------------------------- *)
(* Each constructor (opc_ua_create) is the list of the calls it makes, in  *)
(* order, with what it does when a call fails.  Loops over ports, areas    *)
(* and properties are unrolled a bounded number of times.                  *)

\* number of plugins the host loads in one run
MaxLoad == 2

\* iterations of the builders' loops over ports, areas and properties
MaxPorts == 1
MaxRefused == 1

PluginNames ==
  {"ioports", "vinput", "thermal", "simple_event", "bdi", "hello_world"}

\* the plugins whose constructor opens a rollback ledger
LedgerPlugins == {"ioports", "vinput", "thermal", "simple_event"}

\* a call that touches no graph node and may fail; `res` is the resource
\* the plugin holds once it succeeded
EnvStep(call, res, seterr) ==
  [kind |-> "env", call |-> call, res |-> res, parent |-> 0, out |-> FALSE,
   onfail |-> "err_out", seterr |-> seterr]

\* a call that cannot fail and leaves the plugin holding `res`
AcquireStep(call, res) ==
  [kind |-> "acquire", call |-> call, res |-> res, parent |-> 0,
   out |-> FALSE, onfail |-> "err_out", seterr |-> FALSE]

\* a facade call whose status the builder does not test
FacadeStep_unchecked(call, parent, out, onfail, seterr) ==
  [kind |-> "facade", call |-> call, res |-> "", parent |-> parent,
   out |-> out, onfail |-> "ignore", seterr |-> seterr]

\* a facade call; `parent` is the step that created the parent node, 0 for
\* a node of namespace 0
FacadeStep(call, parent, out, onfail, seterr) ==
  [kind |-> "facade", call |-> call, res |-> "", parent |-> parent,
   out |-> out, onfail |-> onfail, seterr |-> seterr]

\* a call to the store that creates no node; `target` is the step whose
\* node it works on, 0 for none
StoreStep(call, target, onfail, seterr) ==
  [kind |-> "store", call |-> call, res |-> "", parent |-> target,
   out |-> FALSE, onfail |-> onfail, seterr |-> seterr]

\* a node added with the store's own primitive, past the ledger
DirectStep(call, parent, onfail, seterr) ==
  [kind |-> "direct", call |-> call, res |-> "", parent |-> parent,
   out |-> FALSE, onfail |-> onfail, seterr |-> seterr]

\* the registry swap of ioports_ns
SwapStep ==
  [kind |-> "swap", call |-> "customDataTypes", res |-> "", parent |-> 0,
   out |-> FALSE, onfail |-> "err_out", seterr |-> FALSE]

\* if (retVal != UA_STATUSCODE_GOOD) after a loop that accumulates with |=
CheckStep(call, seterr) ==
  [kind |-> "check", call |-> call, res |-> "", parent |-> 0, out |-> FALSE,
   onfail |-> "err_out", seterr |-> seterr]

ioports_ns ==
  <<SwapStep,
    \* ioports_add_port_state_type
    FacadeStep("UA_Server_addDataTypeNode_rb", 0, FALSE, "err_out", FALSE),
    FacadeStep("UA_Server_addVariableNode_rb", 5, FALSE, "err_out", FALSE),
    \* ioports_add_port_dir_type
    FacadeStep("UA_Server_addDataTypeNode_rb", 0, FALSE, "err_out", FALSE),
    FacadeStep("UA_Server_addVariableNode_rb", 7, FALSE, "err_out", FALSE),
    \* ioports_add_port_obj_type
    FacadeStep("UA_Server_addObjectTypeNode_rb", 0, FALSE, "err_out", FALSE),
    FacadeStep("UA_Server_addVariableNode_rb", 9, FALSE, "err_out", FALSE),
    StoreStep("UA_Server_addReference", 10, "err_out", FALSE),
    \* ioports_add_port_event_type
    FacadeStep("UA_Server_addObjectTypeNode_rb", 0, FALSE, "err_out", FALSE),
    StoreStep("UA_Server_addReference", 12, "err_out", FALSE),
    FacadeStep("UA_Server_addObjectTypeNode_rb", 12, FALSE, "err_out", FALSE),
    \* ioports_add_ioports_root
    FacadeStep("UA_Server_addObjectNode_rb", 0, FALSE, "err_out", FALSE),
    StoreStep("UA_Server_writeEventNotifier", 15, "err_out", FALSE)>>

ioports_create ==
  <<EnvStep("curl_easy_init", "curl_h", TRUE),
    EnvStep("vapix_get_credentials", "vapix_credentials", TRUE),
    EnvStep("iop_vapix_check_api_ver", "", TRUE)>>
  \o ioports_ns
  \o <<StoreStep("UA_Server_getNamespaceByName", 0, "return", TRUE),
       StoreStep("set_ioport_lifecycle_cb", 0, "err_out", TRUE),
       EnvStep("iop_vapix_get_ports", "iop_ht", TRUE),
       FacadeStep("UA_Server_addObjectNode_rb", 15, FALSE, "err_out", TRUE),
       EnvStep("ax_event_handler_new", "iopstate_evh", TRUE),
       EnvStep("ax_event_handler_new", "iopcfg_evh", TRUE),
       EnvStep("iop_subscribe_events", "event_subs", TRUE)>>

\* the body of the loop of vin_ua_add_instances for the i-th port; the
\* VirtualInputs object is step 6 and the port's variable step 5 + 2i
vin_port(i) ==
  <<FacadeStep("UA_Server_addVariableNode_rb", 6, FALSE, "continue", FALSE),
    StoreStep("UA_Server_setVariableNode_dataSource", 5 + 2 * i, "continue",
              FALSE)>>

RECURSIVE vin_ports(_)
vin_ports(n) == IF n = 0 THEN <<>> ELSE vin_ports(n - 1) \o vin_port(n)

vin_ua_add_instances ==
  vin_ports(MaxPorts) \o <<CheckStep("vin_ua_add_instances", TRUE)>>

vinput_create ==
  <<EnvStep("curl_easy_init", "curl_h", TRUE),
    EnvStep("ax_event_handler_new", "event_handler", TRUE),
    EnvStep("vin_subscribe_event", "event_subscription", TRUE),
    EnvStep("vapix_get_credentials", "vapix_credentials", TRUE),
    EnvStep("vin_get_schema_version", "schema_version", TRUE),
    FacadeStep("UA_Server_addObjectNode_rb", 0, TRUE, "err_out", TRUE)>>
  \o vin_ua_add_instances
  \o <<FacadeStep("UA_Server_addMethodNode_rb", 6, FALSE, "err_out", TRUE),
       FacadeStep("UA_Server_addMethodNode_rb", 6, FALSE, "err_out", TRUE)>>

thermal_create ==
  <<EnvStep("curl_easy_init", "curl_h", TRUE),
    EnvStep("vapix_get_credentials", "vapix_credentials", TRUE),
    EnvStep("vapix_get_supported_versions", "", TRUE),
    \* add_thermal_object
    FacadeStep("UA_Server_addObjectNode_rb", 0, TRUE, "err_out", TRUE),
    FacadeStep("UA_Server_addMethodNode_rb", 4, FALSE, "err_out", TRUE),
    \* add_thermal_areas
    EnvStep("vapix_get_thermal_areas", "", TRUE),
    FacadeStep("UA_Server_addObjectNode_rb", 4, FALSE, "err_out", TRUE),
    FacadeStep("UA_Server_addVariableNode_rb", 7, FALSE, "err_out", TRUE),
    StoreStep("UA_Server_writeObjectProperty_scalar", 7, "err_out", TRUE),
    AcquireStep("g_timeout_add_seconds", "cb_id")>>

simple_event_create ==
  <<\* create_event_object
    FacadeStep("UA_Server_addObjectNode_rb", 0, TRUE, "err_out", TRUE),
    StoreStep("UA_Server_writeEventNotifier", 1, "err_out", FALSE),
    FacadeStep("UA_Server_addVariableNode_rb", 1, FALSE, "err_out", TRUE),
    \* setup_ax_event
    EnvStep("ax_event_key_value_set_new", "", FALSE),
    EnvStep("ax_event_key_value_set_add_key_values", "", TRUE),
    EnvStep("ax_event_handler_new", "event_handler", FALSE),
    EnvStep("ax_event_handler_subscribe", "sub_id", TRUE)>>

bdi_create ==
  <<DirectStep("UA_Server_addObjectNode", 0, "cleanup_return", TRUE),
    [EnvStep("vapix_get_basic_device_information", "", TRUE)
       EXCEPT !.onfail = "cleanup_return"],
    DirectStep("UA_Server_addVariableNode", 1, "ignore", FALSE)>>

hello_world_create ==
  <<DirectStep("UA_Server_addVariableNode", 0, "cleanup_return", TRUE)>>

\* the steps of a plugin's opc_ua_create
program(p) ==
  CASE p = "ioports" -> ioports_create
    [] p = "vinput" -> vinput_create
    [] p = "thermal" -> thermal_create
    [] p = "simple_event" -> simple_event_create
    [] p = "bdi" -> bdi_create
    [] p = "hello_world" -> hello_world_create

\* longest constructor, and the ids the store may hand out to the plugins
MaxSteps ==
  CHOOSE n \in {Len(program(p)) : p \in PluginNames} :
    \A p \in PluginNames : Len(program(p)) <= n
\* the largest number of nodes one constructor adds
MaxAdds ==
  LET adds(p) == Cardinality({i \in 1..Len(program(p)) :
                               program(p)[i].kind \in {"facade", "direct"}})
  IN CHOOSE n \in {adds(p) : p \in PluginNames} :
       \A p \in PluginNames : adds(p) <= n
PluginIds == 1..(MaxLoad * MaxAdds)

\* the static `plugin` pointer of a plugin: NULL, a live instance, or the
\* address of an instance that has been released
NoInst == [ptr |-> "null", rbd |-> NullRbd, held |-> {}]

NoSteps == [i \in 1..MaxSteps |-> NullId]

\* the calls of launch_ua_server, in the order it makes them; the third is
\* the g_slist_foreach that runs init_ua_plugin on every name
launch_ua_server_reordered ==
  <<"ua_server_init", "plugin_get_names", "ua_server_run", "init_ua_plugin">>
launch_ua_server ==
  <<"ua_server_init", "plugin_get_names", "init_ua_plugin", "ua_server_run">>

\* the lists plugin_get_names can return: the modules found in the plugin
\* directory, each once
NameLists ==
  {l \in UNION {[1..n -> PluginNames] : n \in 0..MaxLoad} :
     \A i, j \in 1..Len(l) : i # j => l[i] # l[j]}

\* the symbols plugin_load looks up in a module
EntryPoints == {"opc_ua_create", "opc_ua_destroy", "opc_ua_get_plugin_name"}

\* a module file of the plugin directory: whether g_module_open opens it
\* and the entry points it exports
Complete == [opens |-> TRUE, symbols |-> EntryPoints]

Modules ==
  {Complete, [opens |-> FALSE, symbols |-> {}]}
    \cup {[opens |-> TRUE, symbols |-> EntryPoints \ {e}] : e \in EntryPoints}

\* plugin_load without the test of the three function pointers
plugin_load_unchecked(m) ==
  IF ~m.opens THEN "null" ELSE "loaded"

\* plugin_load: NULL when g_module_open fails, and when one of the three
\* g_module_symbol lookups left its pointer NULL (the module is closed)
plugin_load(m) ==
  IF ~m.opens THEN "null"
  ELSE IF EntryPoints \subseteq m.symbols THEN "loaded"
  ELSE "null"

\* app_context_t ctx = { 0 } at the head of main(); `modules` are the files
\* behind `names`, `made` and `deleted` count the calls of UA_Server_new
\* that returned a server and the calls of UA_Server_delete
NoHost ==
  [at |-> "launch", lstep |-> 1, server |-> "null", running |-> FALSE,
   thread |-> "none", names |-> <<>>, modules |-> <<>>, freed |-> 0,
   permanent |-> {}, made |-> 0, deleted |-> 0]

(* ------------------- a construction attempt (Populate) ------------------ *)
(* The constructor pattern the ledger-using plugins share: open a ledger,  *)
(* optionally swap in a custom-type registry, issue facade calls, and on   *)
(* the first failure go to err_out (rollback, then cleanup); on success    *)
(* clear the ledger.                                                       *)

NoCall ==
  [made |-> FALSE, want_out |-> FALSE, store_status |-> Good,
   store_id |-> NullId, status |-> Good, out |-> NullId,
   rbd_before |-> NullRbd]

NoRollback == [ran |-> FALSE, ret |-> FALSE, err |-> NoError]

(* --------- event callbacks, data-source handlers and the caches -------- *)

\* bound: the heap blocks the cached strings of an I/O port can occupy
MaxBufs == 3

Bufs == 1..MaxBufs

\* the GLib main loop of main() runs the AXEvent callbacks, the thread of
\* run_ua_server runs the data-source and method handlers
Threads == {"main", "dispatch"}

\* calls and tests of a function that touch no cache; any of them can send
\* the function to `onfail`, its err_out label or its return
Tests(calls, onfail) ==
  [op |-> "tests", calls |-> calls, onfail |-> onfail, cache |-> "none"]

\* strv = g_strsplit(cfg_changes_unq, "=", 2)
SplitStep ==
  [op |-> "g_strsplit", calls |-> {}, onfail |-> "err_out", cache |-> "none"]

\* IOP_HT_LOCK(iop_mtx)
LockStep ==
  [op |-> "lock", calls |-> {}, onfail |-> "", cache |-> "iop_ht"]

\* iop = g_hash_table_lookup(plugin->iop_ht, &port); a miss unlocks and
\* leaves
LookupStep(onfail) ==
  [op |-> "lookup", calls |-> {}, onfail |-> onfail, cache |-> "iop_ht"]

\* a statement that reads or writes the cache
AccessStep(call, cache) ==
  [op |-> "access", calls |-> {call}, onfail |-> "", cache |-> cache]

\* IOP_HT_UNLOCK(iop_mtx)
UnlockStep ==
  [op |-> "unlock", calls |-> {}, onfail |-> "", cache |-> "iop_ht"]

\* the err_out label of a callback: the frees in `calls`, then
\* ax_event_free(event) and return
ErrOutStep(calls) ==
  [op |-> "err_out", calls |-> calls, onfail |-> "", cache |-> "none"]

iop_state_ev_cb ==
  <<Tests({"ax_event_get_key_value_set", "port", "state", "topic2",
           "topic2 is Port or OutputPort"}, "err_out"),
    LockStep,
    LookupStep("err_out"),
    AccessStep("iop_new_state", "iop_ht"),
    UnlockStep,
    Tests({"iop_ua_get_nodeid_from_browsename", "iop_ua_create_event",
           "UA_Server_triggerEvent"}, "err_out"),
    ErrOutStep({})>>

iop_cfg_ev_cb ==
  <<Tests({"ax_event_get_key_value_set", "configuration_changes", "id",
           "g_strrstr", "ascii_strtoll_dec", "g_shell_unquote"}, "err_out"),
    SplitStep,
    Tests({"g_strv_length"}, "err_out"),
    LockStep,
    LookupStep("err_out"),
    AccessStep("iop_cfg_change", "iop_ht"),
    UnlockStep,
    ErrOutStep({"g_strfreev"})>>

vin_event_cb ==
  <<Tests({"ax_event_get_key_value_set", "port", "active"}, "err_out"),
    AccessStep("vin_states_store", "vin_states"),
    ErrOutStep({})>>

\* the string is wrapped under the mutex and copied after the unlock
iop_ua_get_string ==
  <<Tests({"property", "iop_ua_get_iop_index"}, "return"),
    LockStep,
    LookupStep("return"),
    AccessStep("UA_STRING", "iop_ht"),
    UnlockStep,
    AccessStep("UA_Variant_setScalarCopy", "iop_ht")>>

\* the scalar is copied to a local under the mutex
iop_ua_get_state ==
  <<Tests({"property", "iop_ua_get_iop_index"}, "return"),
    LockStep,
    LookupStep("return"),
    AccessStep("ua_state", "iop_ht"),
    UnlockStep,
    Tests({"UA_Variant_setScalarCopy"}, "return")>>

iop_ua_read_dir_cb ==
  <<Tests({"iop_ua_get_iop_index"}, "return"),
    LockStep,
    LookupStep("return"),
    AccessStep("ua_dir", "iop_ht"),
    UnlockStep,
    Tests({"UA_Variant_setScalarCopy"}, "return")>>

\* the request carries INPUT or OUTPUT past the switch on ua_newdir
iop_ua_write_dir_cb ==
  <<Tests({"ua_newdir", "iop_ua_get_iop_index", "iop_vapix_set_port",
           "iop_ua_get_iop_prop_nodeid"}, "return"),
    AccessStep("UA_Server_writeAccessLevel", "State")>>

vin_ua_read_cb ==
  <<AccessStep("vin_states_load", "vin_states"),
    Tests({"UA_Variant_setScalarCopy"}, "return")>>

\* the cache is written when the device reports a change of state
vin_set_port_state ==
  <<Tests({"vapix_request", "vin_xml_parse", "VAPIX_ERR", "state_changed"},
          "return"),
    AccessStep("vin_states_store", "vin_states")>>

vin_ua_write_cb == vin_set_port_state

vin_ua_activate_cb == <<Tests({"port_nr"}, "return")>> \o vin_set_port_state

vin_ua_deactivate_cb == <<Tests({"port_nr"}, "return")>> \o vin_set_port_state

Callbacks == {"iop_state_ev_cb", "iop_cfg_ev_cb", "vin_event_cb"}

Handlers ==
  {"iop_ua_read_name_cb", "iop_ua_read_usage_cb", "iop_ua_read_state_cb",
   "iop_ua_read_normalstate_cb", "iop_ua_read_dir_cb",
   "iop_ua_write_dir_cb", "vin_ua_read_cb",
   "vin_ua_write_cb", "vin_ua_activate_cb", "vin_ua_deactivate_cb"}

code(fn) ==
  CASE fn = "iop_state_ev_cb" -> iop_state_ev_cb
    [] fn = "iop_cfg_ev_cb" -> iop_cfg_ev_cb
    [] fn = "vin_event_cb" -> vin_event_cb
    [] fn \in {"iop_ua_read_name_cb", "iop_ua_read_usage_cb"}
         -> iop_ua_get_string
    [] fn \in {"iop_ua_read_state_cb", "iop_ua_read_normalstate_cb"}
         -> iop_ua_get_state
    [] fn = "iop_ua_read_dir_cb" -> iop_ua_read_dir_cb
    [] fn = "iop_ua_write_dir_cb" -> iop_ua_write_dir_cb
    [] fn = "vin_ua_read_cb" -> vin_ua_read_cb
    [] fn = "vin_ua_write_cb" -> vin_ua_write_cb
    [] fn = "vin_ua_activate_cb" -> vin_ua_activate_cb
    [] fn = "vin_ua_deactivate_cb" -> vin_ua_deactivate_cb

\* the plugin a callback or handler belongs to
plugin_of(fn) ==
  IF fn \in {"vin_event_cb", "vin_ua_read_cb", "vin_ua_write_cb",
             "vin_ua_activate_cb", "vin_ua_deactivate_cb"}
    THEN "vinput" ELSE "ioports"

\* a thread that runs no callback and no handler
NoFrame ==
  [fn |-> "idle", at |-> 0, port |-> 0, ua_string |-> 0, strv |-> "uninit"]

\* no port cached, as before opc_ua_create of ioports
NoPort ==
  [configurable |-> FALSE, readonly |-> FALSE, name |-> 0, usage |-> 0,
   direction |-> "INPUT", state |-> "OPEN", normal_state |-> "OPEN"]

\* the records iop_vapix_get_ports can leave in the cache
CachedPorts ==
  [configurable : BOOLEAN, readonly : BOOLEAN, name : {1}, usage : {2},
   direction : {"INPUT", "OUTPUT"}, state : {"OPEN", "CLOSED"},
   normal_state : {"OPEN", "CLOSED"}]

\* UA_ACCESSLEVELMASK_READ, alone or with UA_ACCESSLEVELMASK_WRITE
AccessLevels == {"READ", "READ|WRITE"}

\* the access level iop_ua_obj_constructor gives the State property of a
\* port: read-only when the port is disabled or an input
iop_ua_obj_constructor(iop) ==
  IF iop.readonly THEN "READ"
  ELSE IF iop.direction = "INPUT" THEN "READ"
  ELSE "READ|WRITE"

\* the access level iop_ua_obj_constructor gives the Direction property:
\* whether the server lets a client's write through to iop_ua_write_dir_cb
direction_writable(iop) == ~iop.readonly /\ iop.configurable

NoEvent == [cb |-> "none", released |-> 0, ended |-> "returned"]

\* no client has called yet
NoReply ==
  [fn |-> "none", rsp |-> "none", ua_status |-> "none",
   before |-> <<>>, after |-> <<>>]

\* #define NBR_OF_RETRIES 10
NBR_OF_RETRIES == 10

\* the timer part of thermal's plugin_t after g_new0, with no timer in the
\* main loop; `poll` and `scale` are the positions of update_thermal_cb and
\* of thermal_change_scale_cb, `status` what the latter returned last,
\* `removed` what plugin_cleanup's g_source_remove came to
NoThermal ==
  [cb_id |-> 0, installed |-> FALSE, counter |-> 0, curl_mutex |-> "none",
   poll |-> "idle", scale |-> "idle", status |-> "none",
   removed |-> "none"]

\* plugin->cb_id = g_timeout_add_seconds(1, update_thermal_cb, NULL)
g_timeout_add_seconds(th) == [th EXCEPT !.cb_id = 1, !.installed = TRUE]

Init ==
  /\ nodes = NS0Nodes
  /\ parentOf = [n \in AllIds \cup PluginIds |-> NullId]
  /\ customDataTypes = NullCdt
  /\ rbd = NullRbd
  /\ pc = "idle"
  /\ attempt = 0
  /\ created = <<>>
  /\ pre_nodes = NS0Nodes
  /\ pre_cdt = NullCdt
  /\ swapped = FALSE
  /\ rb_calls = <<>>
  /\ rb_ret = NoRollback
  /\ last_call = NoCall
  /\ inst = [p \in PluginNames |-> NoInst]
  /\ cur = "none"
  /\ step = 0
  /\ sticky = Good
  /\ step_ids = NoSteps
  /\ trace = <<>>
  /\ gerr = FALSE
  /\ order = <<>>
  /\ active = <<>>
  /\ host = NoHost
  /\ destroy_log = <<>>
  /\ thr = [t \in Threads |-> NoFrame]
  /\ iop_mtx = "none"
  /\ iop_ht = NoPort
  /\ heap = {}
  /\ vin_states = [p \in 1..MaxPorts |-> FALSE]
  /\ event = NoEvent
  /\ access_level = "READ"
  /\ thermal = NoThermal
  /\ vin_reply = NoReply

\* plugin->rbd = g_new0(rollback_data_t, 1)
create_open ==
  /\ UNCHANGED <<plugin_vars, cb_vars>>
  /\ pc \in {"idle", "committed", "failed"}
  /\ attempt < MaxAttempts
  /\ attempt' = attempt + 1
  /\ rbd' = NewRbd
  /\ pc' = "populating"
  /\ created' = <<>>
  /\ pre_nodes' = nodes
  /\ pre_cdt' = customDataTypes
  /\ swapped' = FALSE
  /\ rb_calls' = <<>>
  /\ rb_ret' = NoRollback
  /\ last_call' = NoCall
  /\ UNCHANGED <<nodes, parentOf, customDataTypes>>

\* the registry swap at the head of a namespace builder: chain the plugin's
\* type array in front of the active one and save the old head in the ledger
load_custom_types(r, cdt, types) ==
  [rbd |-> [r EXCEPT !.saved_cdt = cdt],
   customDataTypes |-> <<types>> \o cdt]

register_custom_types ==
  /\ UNCHANGED <<plugin_vars, cb_vars>>
  /\ pc = "populating"
  /\ ~swapped
  /\ ~last_call.made
  /\ LET res == load_custom_types(rbd, customDataTypes, attempt)
     IN /\ rbd' = res.rbd
        /\ customDataTypes' = res.customDataTypes
  /\ swapped' = TRUE
  /\ UNCHANGED <<nodes, parentOf, pc, attempt, created, pre_nodes, pre_cdt,
                 rb_calls, rb_ret, last_call>>

\* the id the store generates for a node added without a requested id
fresh_id(ns) == CHOOSE n \in NodeIds \ ns : \A m \in NodeIds \ ns : n <= m

\* what the environment decides about one facade call: the store rejects
\* it, or accepts it and the ledger's allocations succeed or fail
CallOutcomes ==
  {[store |-> c, mem |-> "ok"] : c \in StoreRejections}
    \cup {[store |-> Good, mem |-> m] : m \in MemOutcomes}

\* the parents a builder names: the Objects folder, the node it created
\* last, or a node that is not in the store (yet)
BuilderParents(ns, r) ==
  NS0Nodes
    \cup (IF r.node_ids # <<>> THEN {Head(r.node_ids)} ELSE {})
    \cup {fresh_id(ns)}

\* one facade call of the builder
facade_call(kind) ==
  /\ UNCHANGED <<plugin_vars, cb_vars>>
  /\ pc = "populating"
  /\ NodeIds \ nodes # {}
  /\ \E requested \in {NullId} \cup NodeIds,
        parentId \in BuilderParents(nodes, rbd),
        wantOut \in BOOLEAN,
        o \in CallOutcomes :
       LET env == [store |-> o.store, fresh |-> fresh_id(nodes),
                   mem |-> o.mem]
           res == facade(kind, nodes, parentOf, requested, parentId, rbd,
                         wantOut, env)
       IN /\ nodes' = res.nodes
          /\ parentOf' = res.parentOf
          /\ rbd' = res.rbd
          /\ created' = IF res.store.status = Good
                          THEN Append(created, [id |-> res.store.id,
                                                parent |-> parentId])
                          ELSE created
          /\ last_call' =
               [made |-> TRUE,
                want_out |-> wantOut, store_status |-> res.store.status,
                store_id |-> res.store.id, status |-> res.status,
                out |-> res.out, rbd_before |-> rbd]
          /\ pc' = IF res.status = Good THEN "populating" ELSE "err_out"
  /\ UNCHANGED <<customDataTypes, attempt, pre_nodes, pre_cdt, swapped,
                 rb_calls, rb_ret>>

add_object == facade_call("Object")
add_data_type == facade_call("DataType")
add_variable == facade_call("Variable")
add_object_type == facade_call("ObjectType")
add_method == facade_call("Method")

\* the constructor fails for a reason outside the graph (a data source is
\* unreachable, a subscription is refused)
nongraph_failure ==
  /\ UNCHANGED <<plugin_vars, cb_vars>>
  /\ pc = "populating"
  /\ pc' = "err_out"
  /\ UNCHANGED <<nodes, parentOf, customDataTypes, rbd, attempt, created,
                 pre_nodes, pre_cdt, swapped, rb_calls, rb_ret, last_call>>

Min(a, b) == IF a <= b THEN a ELSE b

\* what the store may answer to the executor's delete calls: it accepts
\* them all, or refuses the at-th one with some code
DeleteOutcomes(n) ==
  {[at |-> 0, code |-> Good]}
    \cup {[at |-> i, code |-> c] : i \in 1..n, c \in StoreRejections}

\* err_out: ua_utils_do_rollback(server, plugin->rbd, &lerr)
err_out_rollback ==
  /\ UNCHANGED <<plugin_vars, cb_vars>>
  /\ pc = "err_out"
  /\ \E env \in DeleteOutcomes(Len(rbd.node_ids)) :
       LET res == ua_utils_do_rollback(nodes, parentOf, customDataTypes, rbd,
                                       env)
       IN /\ nodes' = res.nodes
          /\ parentOf' = res.parentOf
          /\ customDataTypes' = res.customDataTypes
          /\ rb_calls' = res.calls
          /\ rb_ret' = [ran |-> TRUE, ret |-> res.ret, err |-> res.err]
  /\ pc' = "rolled_back"
  /\ UNCHANGED <<rbd, attempt, created, pre_nodes, pre_cdt, swapped,
                 last_call>>

\* err_out: plugin_cleanup() frees the ledger; the constructor returns FALSE
err_out_cleanup ==
  /\ UNCHANGED <<plugin_vars, cb_vars>>
  /\ pc = "rolled_back"
  /\ rbd' = ua_utils_clear_rbd(rbd)
  /\ pc' = "failed"
  /\ UNCHANGED <<nodes, parentOf, customDataTypes, attempt, created,
                 pre_nodes, pre_cdt, swapped, rb_calls, rb_ret, last_call>>

\* every call succeeded: ua_utils_clear_rbd(&plugin->rbd); return TRUE
commit ==
  /\ UNCHANGED <<plugin_vars, cb_vars>>
  /\ pc = "populating"
  /\ rbd' = ua_utils_clear_rbd(rbd)
  /\ pc' = "committed"
  /\ UNCHANGED <<nodes, parentOf, customDataTypes, attempt, created,
                 pre_nodes, pre_cdt, swapped, rb_calls, rb_ret, last_call>>

Next ==
  \/ create_open
  \/ register_custom_types
  \/ add_object
  \/ add_data_type
  \/ add_variable
  \/ add_object_type
  \/ add_method
  \/ nongraph_failure
  \/ err_out_rollback
  \/ err_out_cleanup
  \/ commit

Spec == Init /\ [][Next]_vars

(* ------------------- the host and the plugin constructors --------------- *)

\* plugin_cleanup(): the ledger plugins release what they hold, clear the
\* ledger and reset `plugin` with g_clear_pointer; bdi and hello_world
\* release the instance with g_slice_free and leave `plugin` pointing at it
\* plugin_cleanup without the g_source_remove of the thermal timer
cleanup_releases_no_timer(p, held) ==
  CASE p = "thermal" -> {"curl_h", "vapix_credentials"}
    [] p = "vinput" ->
         {"curl_h", "vin_states", "vapix_credentials", "schema_version"}
           \cup (IF "event_handler" \in held
                   THEN {"event_handler", "event_subscription"} ELSE {})
    [] p = "simple_event" ->
         IF "event_handler" \in held
           THEN {"event_handler", "sub_id"} ELSE {}
    [] p = "ioports" ->
         {"curl_h", "iop_ht", "vapix_credentials"}
           \cup (held \cap {"iopstate_evh", "iopcfg_evh"})
           \cup (IF {"iopstate_evh", "iopcfg_evh"} \subseteq held
                   THEN {"event_subs"} ELSE {})
    [] OTHER -> held

\* what plugin_cleanup of p releases of the resources `held`: the timer
\* with g_source_remove, a subscription with its AXEventHandler (the
\* unsubscribe and the ax_event_handler_free are under the test of the
\* handler), the rest unconditionally
cleanup_releases(p, held) ==
  CASE p = "thermal" -> {"cb_id", "curl_h", "vapix_credentials"}
    [] p = "vinput" ->
         {"curl_h", "vin_states", "vapix_credentials", "schema_version"}
           \cup (IF "event_handler" \in held
                   THEN {"event_handler", "event_subscription"} ELSE {})
    [] p = "simple_event" ->
         IF "event_handler" \in held
           THEN {"event_handler", "sub_id"} ELSE {}
    [] p = "ioports" ->
         {"curl_h", "iop_ht", "vapix_credentials"}
           \cup (held \cap {"iopstate_evh", "iopcfg_evh"})
           \cup (IF {"iopstate_evh", "iopcfg_evh"} \subseteq held
                   THEN {"event_subs"} ELSE {})
    [] OTHER -> held

\* err_out without the call of plugin_cleanup
plugin_cleanup_skipped(p, i) == i

plugin_cleanup(p, i) ==
  IF p \in LedgerPlugins
    THEN [ptr |-> "null", rbd |-> ua_utils_clear_rbd(i.rbd),
          held |-> i.held \ cleanup_releases(p, i.held)]
    ELSE [ptr |-> "dangling", rbd |-> i.rbd,
          held |-> i.held \ cleanup_releases(p, i.held)]

\* the id the store generates for a plugin's node
plugin_fresh_id(ns) ==
  CHOOSE n \in PluginIds \ ns : \A m \in PluginIds \ ns : n <= m

\* the node a step names as parent or target
step_node(ids, k) == IF k = 0 THEN CHOOSE n \in NS0Nodes : TRUE ELSE ids[k]

\* where the constructor goes when the step `st` failed with `status`
after_failure(st) ==
  CASE st.onfail = "err_out" -> "err_out"
    [] st.onfail = "return" -> "return_false"
    [] st.onfail = "cleanup_return" -> "cleanup"
    [] OTHER -> "create"

the_step == program(cur)[step]

\* bookkeeping shared by the step actions: `status` is what the call gave
step_done(status) ==
  LET st == the_step
      failed == status # Good
      goes_on == ~failed \/ st.onfail \in {"continue", "ignore"}
  IN /\ pc' = IF failed THEN after_failure(st) ELSE "create"
     /\ step' = IF goes_on THEN step + 1 ELSE step
     /\ sticky' = IF failed /\ st.onfail = "continue"
                    THEN StatusOr(sticky, status) ELSE sticky
     /\ gerr' = (gerr \/ (failed /\ st.seterr))

\* ids of the nodes the store created in this attempt, oldest first
created_ids == [i \in 1..Len(created) |-> created[i].id]

\* ctx->plugins after init_ua_plugin ran for the module p: the plugin is
\* appended when it was loaded and its constructor returned TRUE; after a
\* failure the error is logged and the list is left alone
init_ua_plugin_keep_all(plugins, p, result) == Append(plugins, p)
init_ua_plugin(plugins, p, result) ==
  IF result = "created" THEN Append(plugins, p) ELSE plugins

\* launch_ua_server is at the call `call`
in_launch(call) ==
  /\ host.at = "launch"
  /\ host.lstep <= Len(launch_ua_server)
  /\ launch_ua_server[host.lstep] = call

\* init_ua_plugin: the module is loaded and its opc_ua_create is entered
\* with `plugin` unset (each module is loaded once); the instance and, in the
\* ledger plugins, the ledger are allocated
ua_create_enter(p) ==
  /\ UNCHANGED <<host_vars, cb_vars>>
  /\ pc = "idle"
  /\ in_launch("init_ua_plugin")
  /\ Len(order) < Len(host.names)
  /\ p = host.names[Len(order) + 1]
  /\ plugin_load(host.modules[Len(order) + 1]) # "null"
  /\ inst[p].ptr = "null"
  /\ inst' = [inst EXCEPT ![p] =
                [ptr |-> "live",
                 rbd |-> IF p \in LedgerPlugins THEN NewRbd ELSE NullRbd,
                 held |-> IF p = "vinput" THEN {"vin_states"} ELSE {}]]
  /\ cur' = p
  /\ step' = 1
  /\ sticky' = Good
  /\ step_ids' = NoSteps
  /\ trace' = IF p \in LedgerPlugins THEN <<"open">> ELSE <<>>
  /\ gerr' = FALSE
  /\ pc' = "create"
  /\ created' = <<>>
  /\ pre_nodes' = nodes
  /\ pre_cdt' = customDataTypes
  /\ swapped' = FALSE
  /\ rb_calls' = <<>>
  /\ rb_ret' = NoRollback
  /\ last_call' = NoCall
  /\ UNCHANGED <<nodes, parentOf, customDataTypes, rbd, attempt, order,
                 active>>

in_step(kind) ==
  /\ pc = "create"
  /\ step <= Len(program(cur))
  /\ the_step.kind = kind

\* curl, VAPIX and event-service calls
ua_create_env_call ==
  /\ UNCHANGED <<host_vars, cb_vars>>
  /\ in_step("env")
  /\ \E ok \in BOOLEAN :
       /\ step_done(IF ok THEN Good ELSE Bad)
       /\ inst' = IF ok /\ the_step.res # ""
                    THEN [inst EXCEPT ![cur].held = @ \cup {the_step.res}]
                    ELSE inst
  /\ UNCHANGED <<nodes, parentOf, customDataTypes, rbd, attempt, created,
                 pre_nodes, pre_cdt, swapped, rb_calls, rb_ret, last_call,
                 cur, step_ids, trace, order, active>>

\* g_timeout_add_seconds
ua_create_acquire ==
  /\ UNCHANGED <<host_vars, thr, iop_mtx, iop_ht, heap, vin_states, event,
                 access_level, vin_reply>>
  /\ in_step("acquire")
  /\ thermal' = IF the_step.call = "g_timeout_add_seconds"
                  THEN g_timeout_add_seconds(thermal) ELSE thermal
  /\ step_done(Good)
  /\ inst' = [inst EXCEPT ![cur].held = @ \cup {the_step.res}]
  /\ UNCHANGED <<nodes, parentOf, customDataTypes, rbd, attempt, created,
                 pre_nodes, pre_cdt, swapped, rb_calls, rb_ret, last_call,
                 cur, step_ids, trace, order, active>>

\* the registry swap at the head of ioports_ns
ua_create_swap ==
  /\ UNCHANGED <<host_vars, cb_vars>>
  /\ in_step("swap")
  /\ LET res == load_custom_types(inst[cur].rbd, customDataTypes, cur)
     IN /\ inst' = [inst EXCEPT ![cur].rbd = res.rbd]
        /\ customDataTypes' = res.customDataTypes
  /\ swapped' = TRUE
  /\ step_done(Good)
  /\ UNCHANGED <<nodes, parentOf, rbd, attempt, created, pre_nodes, pre_cdt,
                 rb_calls, rb_ret, last_call, cur, step_ids, trace, order,
                 active>>

\* the wrapper a step of the tables names
facade_of(call) ==
  CASE call = "UA_Server_addObjectNode_rb" -> "Object"
    [] call = "UA_Server_addDataTypeNode_rb" -> "DataType"
    [] call = "UA_Server_addVariableNode_rb" -> "Variable"
    [] call = "UA_Server_addObjectTypeNode_rb" -> "ObjectType"
    [] call = "UA_Server_addMethodNode_rb" -> "Method"

\* a facade call of a builder
ua_create_facade_call ==
  /\ UNCHANGED <<host_vars, cb_vars>>
  /\ in_step("facade")
  /\ \E o \in CallOutcomes :
       LET st == the_step
           parentId == step_node(step_ids, st.parent)
           env == [store |-> o.store, fresh |-> plugin_fresh_id(nodes),
                   mem |-> o.mem]
           res == facade(facade_of(st.call), nodes, parentOf, NullId,
                         parentId, inst[cur].rbd, st.out, env)
       IN /\ nodes' = res.nodes
          /\ parentOf' = res.parentOf
          /\ inst' = [inst EXCEPT ![cur].rbd = res.rbd]
          /\ created' = IF res.store.status = Good
                          THEN Append(created, [id |-> res.store.id,
                                                parent |-> parentId])
                          ELSE created
          /\ step_ids' = [step_ids EXCEPT ![step] = res.store.id]
          /\ last_call' =
               [made |-> TRUE,
                want_out |-> st.out, store_status |-> res.store.status,
                store_id |-> res.store.id, status |-> res.status,
                out |-> res.out, rbd_before |-> inst[cur].rbd]
          /\ step_done(res.status)
  /\ UNCHANGED <<customDataTypes, rbd, attempt, pre_nodes, pre_cdt, swapped,
                 rb_calls, rb_ret, cur, trace, order, active>>

\* a call to the store that adds no node: it fails when the node it works
\* on is not in the store, or when the store says so
ua_create_store_call ==
  /\ UNCHANGED <<host_vars, cb_vars>>
  /\ in_step("store")
  /\ \E answer \in {Good} \cup StoreRejections :
       LET st == the_step
           status == IF st.parent # 0 /\ step_ids[st.parent] \notin nodes
                       THEN BadNodeIdUnknown ELSE answer
       IN step_done(status)
  /\ UNCHANGED <<nodes, parentOf, customDataTypes, rbd, attempt, created,
                 pre_nodes, pre_cdt, swapped, rb_calls, rb_ret, last_call,
                 inst, cur, step_ids, trace, order, active>>

\* bdi and hello_world add their nodes with the store's own primitives
ua_create_direct_add ==
  /\ UNCHANGED <<host_vars, cb_vars>>
  /\ in_step("direct")
  /\ \E answer \in {Good} \cup StoreRejections :
       LET st == the_step
           parentId == step_node(step_ids, st.parent)
           s == UA_Server_addNode(nodes, NullId, parentId, answer,
                                  plugin_fresh_id(nodes))
       IN /\ nodes' = IF s.status = Good THEN nodes \cup {s.id} ELSE nodes
          /\ parentOf' = IF s.status = Good
                           THEN [parentOf EXCEPT ![s.id] = parentId]
                           ELSE parentOf
          /\ created' = IF s.status = Good
                          THEN Append(created, [id |-> s.id,
                                                parent |-> parentId])
                          ELSE created
          /\ step_ids' = [step_ids EXCEPT ![step] = s.id]
          /\ step_done(s.status)
  /\ UNCHANGED <<customDataTypes, rbd, attempt, pre_nodes, pre_cdt, swapped,
                 rb_calls, rb_ret, last_call, inst, cur, trace, order,
                 active>>

\* the test of the accumulated status after a builder loop
ua_create_check ==
  /\ UNCHANGED <<host_vars, cb_vars>>
  /\ in_step("check")
  /\ step_done(sticky)
  /\ UNCHANGED <<nodes, parentOf, customDataTypes, rbd, attempt, created,
                 pre_nodes, pre_cdt, swapped, rb_calls, rb_ret, last_call,
                 inst, cur, step_ids, trace, order, active>>

\* (in the four returns below the constructor's locals go with its frame)

\* the end of the constructor: the ledger is cleared, TRUE is returned and
\* init_ua_plugin appends the plugin to ctx->plugins
ua_create_return_true ==
  /\ pc = "create"
  /\ step = Len(program(cur)) + 1
  /\ inst' = IF cur \in LedgerPlugins
               THEN [inst EXCEPT ![cur].rbd = ua_utils_clear_rbd(@)]
               ELSE inst
  /\ trace' = IF cur \in LedgerPlugins
                THEN trace \o <<"clear", "return_true">>
                ELSE Append(trace, "return_true")
  /\ active' = init_ua_plugin(active, cur, "created")
  /\ order' = Append(order, [name |-> cur, result |-> "created"])
  /\ host' = [host EXCEPT !.permanent = @ \cup (Range(created_ids) \cap nodes)]
  /\ pc' = "idle"
  /\ step' = 0
  /\ sticky' = Good
  /\ step_ids' = NoSteps
  /\ UNCHANGED <<cb_vars, destroy_log, nodes, parentOf, customDataTypes,
                 rbd, attempt,
                 created, pre_nodes, pre_cdt, swapped, rb_calls, rb_ret,
                 last_call, cur, gerr>>

\* what the host has tried, after a constructor returned FALSE
failed_to_create == Append(order, [name |-> cur, result |-> "create_failed"])

\* err_out: the plugin's ledger is handed to the executor (a refusal of the
\* store falls on one of the first MaxRefused delete calls), then
\* plugin_cleanup(), then return FALSE
ua_create_err_out_rollback ==
  /\ UNCHANGED <<host_vars, cb_vars>>
  /\ pc = "err_out"
  /\ \E env \in DeleteOutcomes(Min(Len(inst[cur].rbd.node_ids), MaxRefused)) :
       LET res == ua_utils_do_rollback(nodes, parentOf, customDataTypes,
                                       inst[cur].rbd, env)
       IN /\ nodes' = res.nodes
          /\ parentOf' = res.parentOf
          /\ customDataTypes' = res.customDataTypes
          /\ rb_calls' = res.calls
          /\ rb_ret' = [ran |-> TRUE, ret |-> res.ret, err |-> res.err]
  /\ inst' = [inst EXCEPT ![cur] = plugin_cleanup(cur, @)]
  /\ trace' = trace \o <<"do_rollback", "plugin_cleanup", "return_false">>
  /\ order' = failed_to_create
  /\ active' = init_ua_plugin(active, cur, "create_failed")
  /\ pc' = "idle"
  /\ step' = 0
  /\ sticky' = Good
  /\ step_ids' = NoSteps
  /\ UNCHANGED <<rbd, attempt, created, pre_nodes, pre_cdt, swapped,
                 last_call, cur, gerr>>

\* plugin_cleanup(); return FALSE; on the failure paths of bdi and
\* hello_world
ua_create_cleanup ==
  /\ UNCHANGED <<host_vars, cb_vars>>
  /\ pc = "cleanup"
  /\ inst' = [inst EXCEPT ![cur] = plugin_cleanup(cur, @)]
  /\ trace' = trace \o <<"plugin_cleanup", "return_false">>
  /\ order' = failed_to_create
  /\ active' = init_ua_plugin(active, cur, "create_failed")
  /\ pc' = "idle"
  /\ step' = 0
  /\ sticky' = Good
  /\ step_ids' = NoSteps
  /\ UNCHANGED <<nodes, parentOf, customDataTypes, rbd, attempt, created,
                 pre_nodes, pre_cdt, swapped, rb_calls, rb_ret, last_call,
                 cur, gerr>>

\* return FALSE; with nothing before it
ua_create_return_false ==
  /\ pc = "return_false"
  /\ trace' = Append(trace, "return_false")
  /\ order' = failed_to_create
  /\ active' = init_ua_plugin(active, cur, "create_failed")
  /\ pc' = "idle"
  /\ step' = 0
  /\ sticky' = Good
  /\ step_ids' = NoSteps
  /\ UNCHANGED <<cb_vars, host_vars, nodes, parentOf, customDataTypes,
                 rbd, attempt,
                 created, pre_nodes, pre_cdt, swapped, rb_calls, rb_ret,
                 last_call, inst, cur, gerr>>

(* ------------------------------- the host ------------------------------- *)

\* ua_server_init: UA_Server_new and UA_ServerConfig_setMinimal; a new
\* server holds namespace 0 and has no custom data types.  On failure
\* launch_ua_server returns FALSE and main() goes to cleanup
host_ua_server_init ==
  /\ in_launch("ua_server_init")
  /\ \E res \in {"ok", "new_fails", "config_fails"} :
       /\ host' = [host EXCEPT
                     !.server = IF res = "new_fails" THEN "null" ELSE "live",
                     !.made = IF res = "new_fails" THEN @ ELSE @ + 1,
                     !.lstep = IF res = "ok" THEN @ + 1 ELSE @,
                     !.at = IF res = "ok" THEN "launch" ELSE "cleanup"]
       /\ nodes' = IF res = "new_fails" THEN {} ELSE NS0Nodes
  /\ customDataTypes' = NullCdt
  /\ UNCHANGED <<cb_vars, parentOf, rbd, pc, attempt, created,
                 pre_nodes, pre_cdt,
                 swapped, rb_calls, rb_ret, last_call, inst, cur, step,
                 sticky, step_ids, trace, gerr, order, active, destroy_log>>

\* plugin_get_names: the names of the modules in the plugin directory
host_plugin_get_names ==
  /\ in_launch("plugin_get_names")
  /\ \E l \in NameLists :
       \E ms \in [1..Len(l) -> Modules] :
         host' = [host EXCEPT !.names = l, !.modules = ms, !.lstep = @ + 1]
  /\ UNCHANGED <<cb_vars, nodes, parentOf, customDataTypes, rbd, pc,
                 attempt, created,
                 pre_nodes, pre_cdt, swapped, rb_calls, rb_ret, last_call,
                 inst, cur, step, sticky, step_ids, trace, gerr, order,
                 active, destroy_log>>

\* init_ua_plugin when plugin_load returns NULL: the failure is logged and
\* the callback returns
host_plugin_load_fails ==
  /\ pc = "idle"
  /\ in_launch("init_ua_plugin")
  /\ Len(order) < Len(host.names)
  /\ plugin_load(host.modules[Len(order) + 1]) = "null"
  /\ order' = Append(order, [name |-> host.names[Len(order) + 1],
                             result |-> "load_failed"])
  /\ active' = init_ua_plugin(active, host.names[Len(order) + 1],
                            "load_failed")
  /\ UNCHANGED <<cb_vars, nodes, parentOf, customDataTypes, rbd, pc,
                 attempt, created,
                 pre_nodes, pre_cdt, swapped, rb_calls, rb_ret, last_call,
                 inst, cur, step, sticky, step_ids, trace, gerr,
                 host_vars>>

\* g_slist_foreach(plugin_names, init_ua_plugin, ctx) has visited every name
\* (the locals of the last constructor and the record of its calls go with
\* its frame)
host_plugins_done ==
  /\ pc = "idle"
  /\ in_launch("init_ua_plugin")
  /\ Len(order) = Len(host.names)
  /\ host' = [host EXCEPT !.lstep = @ + 1]
  /\ cur' = "none"
  /\ step' = 0
  /\ sticky' = Good
  /\ step_ids' = NoSteps
  /\ trace' = <<>>
  /\ gerr' = FALSE
  /\ created' = <<>>
  /\ pre_nodes' = NS0Nodes
  /\ pre_cdt' = NullCdt
  /\ swapped' = FALSE
  /\ rb_calls' = <<>>
  /\ rb_ret' = NoRollback
  /\ last_call' = NoCall
  /\ UNCHANGED <<cb_vars, nodes, parentOf, customDataTypes, rbd, pc,
                 attempt, inst,
                 order, active, destroy_log>>

\* ctx->ua_server_running = TRUE and ua_server_run: g_thread_new starts
\* run_ua_server (g_thread_new aborts rather than return NULL)
host_ua_server_run ==
  /\ pc = "idle"
  /\ in_launch("ua_server_run")
  /\ host' = [host EXCEPT !.running = TRUE, !.thread = "running",
                          !.lstep = @ + 1]
  /\ UNCHANGED <<cb_vars, nodes, parentOf, customDataTypes, rbd, pc,
                 attempt, created,
                 pre_nodes, pre_cdt, swapped, rb_calls, rb_ret, last_call,
                 inst, cur, step, sticky, step_ids, trace, gerr, order,
                 active, destroy_log>>

\* launch_ua_server has returned TRUE and main() is in g_main_loop_run
in_main_loop ==
  /\ host.at = "launch"
  /\ host.lstep = Len(launch_ua_server) + 1

\* run_ua_server that leaves the server to cleanup
run_ua_server_no_delete(ctx) ==
  [ctx EXCEPT !.thread = "exited"]

\* the end of run_ua_server: UA_Server_delete(ctx->server); ctx->server = NULL
run_ua_server(ctx) ==
  [ctx EXCEPT !.thread = "exited", !.server = "null", !.deleted = @ + 1]

\* run_ua_server: UA_Server_run has returned, because the host cleared the
\* running flag or because the engine gave up; the thread deletes the server
\* and clears ctx->server
run_ua_server_exit ==
  /\ host.thread = "running"
  /\ thr["dispatch"] = NoFrame
  /\ thermal.scale = "idle"
  /\ host' = run_ua_server(host)
  /\ nodes' = {}
  /\ parentOf' = [n \in DOMAIN parentOf |-> NullId]
  /\ UNCHANGED <<cb_vars, customDataTypes, rbd, pc, attempt, created,
                 pre_nodes, pre_cdt, swapped, rb_calls, rb_ret, last_call,
                 inst, cur, step, sticky, step_ids, trace, gerr, order,
                 active, destroy_log>>

\* SIGTERM or SIGINT: signal_handler quits the main loop and main() goes on
\* to cleanup, where the running flag is cleared before the thread is joined
host_signal ==
  /\ pc = "idle"
  /\ in_main_loop
  /\ thr["main"] = NoFrame
  /\ thermal.poll = "idle"
  /\ host' = [host EXCEPT !.running = FALSE, !.at = "join"]
  /\ UNCHANGED <<cb_vars, nodes, parentOf, customDataTypes, rbd, pc,
                 attempt, created,
                 pre_nodes, pre_cdt, swapped, rb_calls, rb_ret, last_call,
                 inst, cur, step, sticky, step_ids, trace, gerr, order,
                 active, destroy_log>>

\* cleanup after launch_ua_server returned FALSE: the thread was never
\* started, and an allocated server is deleted here
host_cleanup_server ==
  /\ host.at = "cleanup"
  /\ host' = [host EXCEPT !.at = "free_plugins",
                          !.server = IF @ = "live" THEN "freed" ELSE @,
                          !.deleted = IF host.server = "live" THEN @ + 1
                                      ELSE @]
  /\ nodes' = IF host.server = "live" THEN {} ELSE nodes
  /\ UNCHANGED <<thr, iop_mtx, iop_ht, heap, vin_states, event, access_level,
                 thermal, vin_reply, parentOf, customDataTypes, rbd, pc, attempt, created,
                 pre_nodes, pre_cdt, swapped, rb_calls, rb_ret, last_call,
                 inst, cur, step, sticky, step_ids, trace, gerr, order,
                 active, destroy_log>>

\* g_thread_join returns once run_ua_server has returned
host_thread_join ==
  /\ host.at = "join"
  /\ host.thread = "exited"
  /\ host' = [host EXCEPT !.thread = "joined", !.at = "free_plugins"]
  /\ UNCHANGED <<cb_vars, nodes, parentOf, customDataTypes, rbd, pc,
                 attempt, created,
                 pre_nodes, pre_cdt, swapped, rb_calls, rb_ret, last_call,
                 inst, cur, step, sticky, step_ids, trace, gerr, order,
                 active, destroy_log>>

\* opc_ua_destroy of plugin p whose static pointer and resources are `i`:
\* nothing when `plugin` is NULL, plugin_cleanup otherwise; `effect` tells
\* whether plugin_cleanup worked on a live instance or on a released one,
\* `deletes` the delete calls issued to the store
opc_ua_destroy_deleting(p, i) ==
  IF i.ptr = "null"
    THEN [inst |-> i, effect |-> "none", deletes |-> <<>>]
    ELSE [inst |-> plugin_cleanup(p, i),
          effect |-> IF i.ptr = "live" THEN "released" ELSE "use_after_free",
          deletes |-> IF host.permanent \cap nodes = {} THEN <<>>
                      ELSE <<CHOOSE n \in host.permanent \cap nodes : TRUE>>]
opc_ua_destroy(p, i) ==
  IF i.ptr = "null"
    THEN [inst |-> i, effect |-> "none", deletes |-> <<>>]
    ELSE [inst |-> plugin_cleanup(p, i),
          effect |-> IF i.ptr = "live" THEN "released" ELSE "use_after_free",
          deletes |-> <<>>]

\* plugin_cleanup of thermal: g_source_remove(plugin->cb_id) when cb_id is
\* not 0, which removes the timer if the main loop still has it and fails
\* if it has not; then the plugin is released
thermal_plugin_cleanup(th) ==
  [NoThermal EXCEPT !.installed = IF th.cb_id # 0 THEN FALSE
                                  ELSE th.installed,
                    !.removed = IF th.cb_id = 0 THEN "none"
                                ELSE IF th.installed THEN "removed"
                                ELSE "not_found"]

\* what a call of opc_ua_destroy on p does to the model's state
destroy_call(p) ==
  LET d == opc_ua_destroy(p, inst[p])
  IN /\ inst' = [inst EXCEPT ![p] = d.inst]
     /\ destroy_log' = Append(destroy_log,
                              [name |-> p, before |-> inst[p].ptr,
                               effect |-> d.effect, deletes |-> d.deletes])
     /\ nodes' = nodes \ Range(d.deletes)
     /\ thermal' = IF p = "thermal" /\ inst[p].ptr # "null"
                     THEN thermal_plugin_cleanup(thermal) ELSE thermal

\* free_plugins on the next element of ctx->plugins: ua_destroy, then
\* plugin_unload
host_free_plugins ==
  /\ host.at = "free_plugins"
  /\ host.freed < Len(active)
  /\ destroy_call(active[host.freed + 1])
  /\ host' = [host EXCEPT !.freed = @ + 1]
  /\ UNCHANGED <<thr, iop_mtx, iop_ht, heap, vin_states, event, access_level,
                 vin_reply, parentOf, customDataTypes, rbd, pc, attempt, created,
                 pre_nodes, pre_cdt, swapped, rb_calls, rb_ret, last_call,
                 cur, step, sticky, step_ids, trace, gerr, order, active>>

\* the end of cleanup and of main()
host_exit ==
  /\ host.at = "free_plugins"
  /\ host.freed = Len(active)
  /\ host' = [host EXCEPT !.at = "exit"]
  /\ UNCHANGED <<cb_vars, nodes, parentOf, customDataTypes, rbd, pc,
                 attempt, created,
                 pre_nodes, pre_cdt, swapped, rb_calls, rb_ret, last_call,
                 inst, cur, step, sticky, step_ids, trace, gerr, order,
                 active, destroy_log>>

NextPlugins ==
  \/ host_ua_server_init
  \/ host_plugin_get_names
  \/ host_plugin_load_fails
  \/ host_plugins_done
  \/ host_ua_server_run
  \/ run_ua_server_exit
  \/ host_signal
  \/ host_cleanup_server
  \/ host_thread_join
  \/ host_free_plugins
  \/ host_exit
  \/ \E p \in PluginNames : ua_create_enter(p)
  \/ ua_create_env_call
  \/ ua_create_acquire
  \/ ua_create_swap
  \/ ua_create_facade_call
  \/ ua_create_store_call
  \/ ua_create_direct_add
  \/ ua_create_check
  \/ ua_create_return_true
  \/ ua_create_err_out_rollback
  \/ ua_create_cleanup
  \/ ua_create_return_false

SpecPlugins == Init /\ [][NextPlugins]_vars

\* launch_ua_server and the constructors it calls are straight-line code of
\* the main thread: a step that can be taken is taken
SpecPluginsFair == SpecPlugins /\ WF_vars(NextPlugins)


\* opc_ua_destroy is an exported symbol of every module.  The host calls it
\* from free_plugins on the members of ctx->plugins only; this is a call
\* made while the host is in its main loop, by any other holder of the
\* module, on a plugin whose constructor has failed
ua_destroy_after_failure(p) ==
  /\ pc = "idle"
  /\ in_main_loop
  /\ \E i \in 1..Len(order) :
       order[i].name = p /\ order[i].result = "create_failed"
  /\ \A i \in 1..Len(destroy_log) : destroy_log[i].name # p
  /\ destroy_call(p)
  /\ UNCHANGED <<thr, iop_mtx, iop_ht, heap, vin_states, event, access_level,
                 vin_reply, parentOf, customDataTypes, rbd, pc, attempt, created,
                 pre_nodes, pre_cdt, swapped, rb_calls, rb_ret, last_call,
                 cur, step, sticky, step_ids, trace, gerr, order, active,
                 host>>

\* the same call on a plugin whose constructor returned TRUE
ua_destroy_committed(p) ==
  /\ pc = "idle"
  /\ in_main_loop
  /\ p \in Range(active)
  /\ \A i \in 1..Len(destroy_log) : destroy_log[i].name # p
  /\ destroy_call(p)
  /\ UNCHANGED <<thr, iop_mtx, iop_ht, heap, vin_states, event, access_level,
                 vin_reply, parentOf, customDataTypes, rbd, pc, attempt, created,
                 pre_nodes, pre_cdt, swapped, rb_calls, rb_ret, last_call,
                 cur, step, sticky, step_ids, trace, gerr, order, active,
                 host>>

NextDestroy ==
  \/ NextPlugins
  \/ \E p \in PluginNames : ua_destroy_after_failure(p)
  \/ \E p \in PluginNames : ua_destroy_committed(p)

SpecDestroy == Init /\ [][NextDestroy]_vars

\* opc_ua_create called once more after the attempt of `cur` has returned
\* FALSE (the host makes no such call: every module is loaded once).  With
\* the static `plugin` left non-NULL, by the freed instance or by the
\* instance the early return kept, the test at the head of the constructor
\* returns TRUE at once; with `plugin` NULL the call is a first attempt
opc_ua_create_again ==
  /\ pc = "idle"
  /\ cur # "none"
  /\ trace # <<>>
  /\ trace[Len(trace)] = "return_false"
  /\ host.server = "live"
  /\ inst[cur].ptr # "null"
  /\ trace' = Append(trace, "return_true")
  /\ UNCHANGED <<cb_vars, host_vars, nodes, parentOf, customDataTypes, rbd,
                 pc, attempt, created, pre_nodes, pre_cdt, swapped, rb_calls,
                 rb_ret, last_call, inst, cur, step, sticky, step_ids, gerr,
                 order, active>>

NextAgain ==
  \/ NextPlugins
  \/ opc_ua_create_again

SpecAgain == Init /\ [][NextAgain]_vars

(* ------------- the callbacks and handlers while the server runs -------- *)

\* launch_ua_server has returned TRUE with ioports and vinput created and
\* the dispatch thread started: the state SpecPlugins reaches for
\* plugin_get_names = <<"ioports", "vinput">> when no call fails
Launched ==
  /\ nodes = NS0Nodes \cup 1..14
  /\ parentOf = [n \in AllIds \cup PluginIds |->
                   IF n \in {1, 3, 5, 7, 9, 11} THEN 85
                   ELSE IF n \in {2, 4, 6, 8, 10} THEN n - 1
                   ELSE IF n \in {12, 13, 14} THEN 11
                   ELSE NullId]
  /\ customDataTypes = <<"ioports">>
  /\ rbd = NullRbd
  /\ pc = "idle"
  /\ attempt = 0
  /\ created = <<>>
  /\ pre_nodes = NS0Nodes
  /\ pre_cdt = NullCdt
  /\ swapped = FALSE
  /\ rb_calls = <<>>
  /\ rb_ret = NoRollback
  /\ last_call = NoCall
  /\ inst = [p \in PluginNames |->
               IF p = "ioports"
                 THEN [ptr |-> "live", rbd |-> NullRbd,
                       held |-> {"curl_h", "vapix_credentials", "iop_ht",
                                 "iopstate_evh", "iopcfg_evh", "event_subs"}]
               ELSE IF p = "vinput"
                 THEN [ptr |-> "live", rbd |-> NullRbd,
                       held |-> {"curl_h", "vapix_credentials",
                                 "event_handler", "event_subscription",
                                 "schema_version", "vin_states"}]
               ELSE NoInst]
  /\ cur = "none"
  /\ step = 0
  /\ sticky = Good
  /\ step_ids = NoSteps
  /\ trace = <<>>
  /\ gerr = FALSE
  /\ order = <<[name |-> "ioports", result |-> "created"],
               [name |-> "vinput", result |-> "created"]>>
  /\ active = <<"ioports", "vinput">>
  /\ host = [NoHost EXCEPT !.lstep = Len(launch_ua_server) + 1,
                           !.server = "live",
                           !.running = TRUE,
                           !.thread = "running",
                           !.names = <<"ioports", "vinput">>,
                           !.modules = <<Complete, Complete>>,
                           !.made = 1,
                           !.permanent = 1..14]
  /\ destroy_log = <<>>

\* the caches as the two constructors leave them
InitCallbacks ==
  /\ Launched
  /\ thr = [t \in Threads |-> NoFrame]
  /\ iop_mtx = "none"
  /\ iop_ht \in CachedPorts
  /\ heap = {1, 2}
  /\ vin_states = [p \in 1..MaxPorts |-> FALSE]
  /\ event = NoEvent
  /\ access_level = iop_ua_obj_constructor(iop_ht)
  /\ thermal = NoThermal
  /\ vin_reply = NoReply

launch_vars ==
  <<nodes, parentOf, customDataTypes, rbd, pc, attempt, created, pre_nodes,
    pre_cdt, swapped, rb_calls, rb_ret, last_call, plugin_vars>>

\* g_strfreev of the uninitialised strv has not brought the process down
alive == event.ended # "crashed"

\* the event callbacks of a plugin run from the main loop of the host for
\* as long as the plugin holds its subscriptions: from its constructor's
\* TRUE until free_plugins
subscribed(cb) ==
  /\ alive
  /\ in_main_loop
  /\ plugin_of(cb) \in Range(active)

\* the handlers of a plugin run inside UA_Server_run, on the server thread
serving(fn) ==
  /\ subscribed(fn)
  /\ host.thread = "running"

\* the indexes of plugin->vin_states, as port numbers: the array has one
\* element per port (VINPUT_MAX_PORTS of them)
VinPorts == 1..MaxPorts

\* the ports an event or a request can name.  The read and write handlers
\* of vinput take theirs from the id of a port's node; the event and the
\* arguments of Activate and Deactivate carry an integer, here one of the
\* ports or the number below or above them; the ioports functions look
\* theirs up in the hash table
ports(fn) ==
  IF fn \in {"vin_ua_read_cb", "vin_ua_write_cb"} THEN VinPorts
  ELSE IF plugin_of(fn) = "vinput" THEN 0..(MaxPorts + 1)
  ELSE {0}

\* the outcomes of a group of tests: the test of the range of port_nr is
\* decided by the port, the others by the environment
test_outcomes_unchecked(f, calls) == (calls \ {"port_nr"}) \cup {"ok"}

test_outcomes(f, calls) ==
  IF "port_nr" \in calls
    THEN IF f.port \in VinPorts THEN {"ok"} ELSE {"port_nr"}
    ELSE calls \cup {"ok"}

\* the step thread t is at
now(t) == code(thr[t].fn)[thr[t].at]

at_op(t, op) == alive /\ thr[t].fn # "idle" /\ now(t).op = op

at_call(t, call) == at_op(t, "access") /\ call \in now(t).calls

\* the frame after its step: the next step, or the return after the last
leave(f) ==
  IF f.at = Len(code(f.fn)) THEN NoFrame ELSE [f EXCEPT !.at = @ + 1]

\* goto err_out (the last step of a callback), or return
divert(f, onfail) ==
  IF onfail = "return" THEN NoFrame ELSE [f EXCEPT !.at = Len(code(f.fn))]

\* the AXEvent library calls a subscription callback with a new event
ax_event_deliver(cb) ==
  /\ subscribed(cb)
  /\ thr["main"] = NoFrame
  /\ \E port \in ports(cb) :
       thr' = [thr EXCEPT !["main"] =
                 [NoFrame EXCEPT !.fn = cb, !.at = 1, !.port = port]]
  /\ event' = [cb |-> cb, released |-> 0, ended |-> "pending"]
  /\ UNCHANGED <<launch_vars, ext_vars, iop_mtx, iop_ht, heap, vin_states>>

\* UA_Server_run calls the handler of a node for a client's request
UA_Server_run(h) ==
  /\ serving(h)
  /\ h = "iop_ua_write_dir_cb" => direction_writable(iop_ht)
  /\ thr["dispatch"] = NoFrame
  /\ \E port \in ports(h) :
       thr' = [thr EXCEPT !["dispatch"] =
                 [NoFrame EXCEPT !.fn = h, !.at = 1, !.port = port]]
  /\ UNCHANGED <<launch_vars, ext_vars, iop_mtx, iop_ht, heap, vin_states, event>>

cb_tests(t) ==
  /\ at_op(t, "tests")
  /\ \E out \in test_outcomes(thr[t], now(t).calls) :
       thr' = [thr EXCEPT ![t] =
                 IF out = "ok" THEN leave(@) ELSE divert(@, now(t).onfail)]
  /\ UNCHANGED <<launch_vars, ext_vars, iop_mtx, iop_ht, heap, vin_states, event>>

\* strv = g_strsplit(...); if (strv == NULL) goto err_out
cb_g_strsplit(t) ==
  /\ at_op(t, "g_strsplit")
  /\ \E v \in {"vector", "null"} :
       LET f == [thr[t] EXCEPT !.strv = v]
       IN thr' = [thr EXCEPT ![t] =
                    IF v = "null" THEN divert(f, now(t).onfail)
                    ELSE leave(f)]
  /\ UNCHANGED <<launch_vars, ext_vars, iop_mtx, iop_ht, heap, vin_states, event>>

\* g_mutex_lock(&plugin->iop_mtx)
cb_lock(t) ==
  /\ at_op(t, "lock")
  /\ iop_mtx = "none"
  /\ iop_mtx' = t
  /\ thr' = [thr EXCEPT ![t] = leave(@)]
  /\ UNCHANGED <<launch_vars, ext_vars, iop_ht, heap, vin_states, event>>

\* g_hash_table_lookup; if (!iop) { IOP_HT_UNLOCK(iop_mtx); ... }
cb_lookup(t) ==
  /\ at_op(t, "lookup")
  /\ \E found \in BOOLEAN :
       IF found
         THEN /\ thr' = [thr EXCEPT ![t] = leave(@)]
              /\ UNCHANGED iop_mtx
         ELSE /\ thr' = [thr EXCEPT ![t] = divert(@, now(t).onfail)]
              /\ iop_mtx' = "none"
  /\ UNCHANGED <<launch_vars, ext_vars, iop_ht, heap, vin_states, event>>

\* g_mutex_unlock(&plugin->iop_mtx)
cb_unlock(t) ==
  /\ at_op(t, "unlock")
  /\ iop_mtx' = "none"
  /\ thr' = [thr EXCEPT ![t] = leave(@)]
  /\ UNCHANGED <<launch_vars, ext_vars, iop_ht, heap, vin_states, event>>

iop_new_state(is_active, normal_state) ==
  IF is_active
    THEN IF normal_state = "OPEN" THEN "CLOSED" ELSE "OPEN"
    ELSE IF normal_state = "OPEN" THEN "OPEN" ELSE "CLOSED"

\* iop->state = iop_new_state(active, iop->normal_state);
\* ua_state = iop->state
iop_state_update(t) ==
  /\ at_call(t, "iop_new_state")
  /\ \E is_active \in BOOLEAN :
       iop_ht' = [iop_ht EXCEPT
                    !.state = iop_new_state(is_active, iop_ht.normal_state)]
  /\ thr' = [thr EXCEPT ![t] = leave(@)]
  /\ UNCHANGED <<launch_vars, ext_vars, iop_mtx, heap, vin_states, event>>

\* the parameters and values a configuration event can carry
CfgParams == {"Name", "Usage", "Direction", "Trig", "Active", "other"}
CfgValues == {"input", "open", "other"}

\* the branches of iop_cfg_ev_cb on `param`; g_strdup returns the block
\* `buf`, which the allocator is free to take from the ones just released
iop_cfg_change(ht, hp, param, val, buf) ==
  CASE param = "Name" ->
         [iop_ht |-> [ht EXCEPT !.name = buf],
          heap |-> (hp \ {ht.name}) \cup {buf}]
    [] param = "Usage" ->
         [iop_ht |-> [ht EXCEPT !.usage = buf],
          heap |-> (hp \ {ht.usage}) \cup {buf}]
    [] param = "Direction" ->
         [iop_ht |-> [ht EXCEPT !.direction =
                        IF val = "input" THEN "INPUT" ELSE "OUTPUT"],
          heap |-> hp]
    [] param \in {"Trig", "Active"} ->
         [iop_ht |-> [ht EXCEPT !.normal_state =
                        IF val = "open" THEN "CLOSED" ELSE "OPEN"],
          heap |-> hp]
    [] OTHER -> [iop_ht |-> ht, heap |-> hp]

\* the blocks g_strdup can return after `old` was freed
free_blocks(hp, old) == Bufs \ (hp \ {old})

iop_cfg_update(t) ==
  /\ at_call(t, "iop_cfg_change")
  /\ \E param \in CfgParams, val \in CfgValues :
       \E buf \in (CASE param = "Name" -> free_blocks(heap, iop_ht.name)
                     [] param = "Usage" -> free_blocks(heap, iop_ht.usage)
                     [] OTHER -> {0}) :
         LET res == iop_cfg_change(iop_ht, heap, param, val, buf)
         IN /\ iop_ht' = res.iop_ht
            /\ heap' = res.heap
  /\ thr' = [thr EXCEPT ![t] = leave(@)]
  /\ UNCHANGED <<launch_vars, ext_vars, iop_mtx, vin_states, event>>

\* ua_string = UA_STRING(iop->name) or UA_STRING(iop->usage): the length is
\* taken and the pointer is kept, the bytes are not copied
iop_ua_string(t) ==
  /\ at_call(t, "UA_STRING")
  /\ thr' = [thr EXCEPT ![t] =
               leave([@ EXCEPT !.ua_string =
                        IF thr[t].fn = "iop_ua_read_name_cb"
                          THEN iop_ht.name ELSE iop_ht.usage])]
  /\ UNCHANGED <<launch_vars, ext_vars, iop_mtx, iop_ht, heap, vin_states, event>>

\* a statement that reads the cache into a local or into the reply
cache_read(t) ==
  /\ \E call \in {"UA_Variant_setScalarCopy", "ua_state", "ua_dir",
                  "vin_states_load"} : at_call(t, call)
  /\ thr' = [thr EXCEPT ![t] = leave(@)]
  /\ UNCHANGED <<launch_vars, ext_vars, iop_mtx, iop_ht, heap, vin_states, event>>

\* UA_Server_writeAccessLevel(server, state_nodeId, access_level) at the
\* end of iop_ua_write_dir_cb
iop_write_access_level(t) ==
  /\ at_call(t, "UA_Server_writeAccessLevel")
  /\ \E ua_newdir \in {"INPUT", "OUTPUT"}, ok \in BOOLEAN :
       access_level' = IF ~ok THEN access_level
                       ELSE IF ua_newdir = "OUTPUT" THEN "READ|WRITE"
                       ELSE "READ"
  /\ thr' = [thr EXCEPT ![t] = leave(@)]
  /\ UNCHANGED <<launch_vars, iop_mtx, iop_ht, heap, vin_states, event,
                 thermal, vin_reply>>

\* the values a function stores in vin_states[port - 1]
stored_states(fn) ==
  CASE fn = "vin_ua_activate_cb" -> {TRUE}
    [] fn = "vin_ua_deactivate_cb" -> {FALSE}
    [] OTHER -> BOOLEAN

\* vin_states[port - 1] = ...; a store outside the array goes to memory
\* next to it: it is lost, or it brings the process down
vin_states_store(t) ==
  /\ at_call(t, "vin_states_store")
  /\ IF thr[t].port \in VinPorts
       THEN /\ \E v \in stored_states(thr[t].fn) :
                 vin_states' = [vin_states EXCEPT ![thr[t].port] = v]
            /\ UNCHANGED event
       ELSE /\ UNCHANGED vin_states
            /\ \E lost \in BOOLEAN :
                 event' = IF lost THEN event
                          ELSE [event EXCEPT !.ended = "crashed"]
  /\ thr' = [thr EXCEPT ![t] = leave(@)]
  /\ UNCHANGED <<launch_vars, ext_vars, iop_mtx, iop_ht, heap>>

\* err_out of iop_cfg_ev_cb starts with g_strfreev(strv), and strv has no
\* value on the paths that leave before g_strsplit
wild_free(t) ==
  "g_strfreev" \in now(t).calls /\ thr[t].strv = "uninit"

\* err_out: the frees, ax_event_free(event), return; an uninitialised strv
\* that happens to hold NULL is harmless
cb_err_out(t) ==
  /\ at_op(t, "err_out")
  /\ event' = [event EXCEPT !.released = @ + 1, !.ended = "returned"]
  /\ thr' = [thr EXCEPT ![t] = NoFrame]
  /\ UNCHANGED <<launch_vars, ext_vars, iop_mtx, iop_ht, heap, vin_states>>

\* err_out: g_strfreev of an uninitialised strv that holds anything else
\* brings the process down before ax_event_free
cb_err_out_wild_free(t) ==
  /\ at_op(t, "err_out")
  /\ wild_free(t)
  /\ event' = [event EXCEPT !.ended = "crashed"]
  /\ UNCHANGED <<launch_vars, ext_vars, thr, iop_mtx, iop_ht, heap, vin_states>>

NextCallbacks ==
  \/ \E cb \in Callbacks : ax_event_deliver(cb)
  \/ \E h \in Handlers : UA_Server_run(h)
  \/ (alive /\ run_ua_server_exit)
  \/ \E t \in Threads : cb_tests(t)
  \/ \E t \in Threads : cb_g_strsplit(t)
  \/ \E t \in Threads : cb_lock(t)
  \/ \E t \in Threads : cb_lookup(t)
  \/ \E t \in Threads : cb_unlock(t)
  \/ \E t \in Threads : iop_state_update(t)
  \/ \E t \in Threads : iop_cfg_update(t)
  \/ \E t \in Threads : iop_ua_string(t)
  \/ \E t \in Threads : cache_read(t)
  \/ \E t \in Threads : vin_states_store(t)
  \/ \E t \in Threads : iop_write_access_level(t)
  \/ \E t \in Threads : cb_err_out(t)
  \/ \E t \in Threads : cb_err_out_wild_free(t)

SpecCallbacks == InitCallbacks /\ [][NextCallbacks]_vars


\* ---- plugin_cleanup of ioports, statement by statement ----

\* free_plugins has called opc_ua_destroy of ioports
iop_in_cleanup ==
  /\ host.at = "free_plugins"
  /\ host.freed < Len(active)
  /\ active[host.freed + 1] = "ioports"
  /\ inst["ioports"].ptr = "live"

\* the event handlers ioports is still subscribed with
iop_subscriptions == inst["ioports"].held \cap {"iopstate_evh", "iopcfg_evh"}

\* what the statements of plugin_cleanup leave alone
cleanup_frame ==
  <<nodes, parentOf, customDataTypes, rbd, pc, attempt, created, pre_nodes,
    pre_cdt, swapped, rb_calls, rb_ret, last_call, cur, step, sticky,
    step_ids, trace, gerr, order, active, thr, iop_ht, heap, vin_states,
    event, access_level, vin_reply>>

\* curl_easy_cleanup(plugin->curl_h)
iop_cleanup_curl ==
  /\ iop_in_cleanup
  /\ "curl_h" \in inst["ioports"].held
  /\ inst' = [inst EXCEPT !["ioports"].held = @ \ {"curl_h"}]
  /\ UNCHANGED <<cleanup_frame, host_vars, iop_mtx, thermal>>

\* IOP_HT_LOCK; g_hash_table_destroy(plugin->iop_ht); IOP_HT_UNLOCK
iop_cleanup_ht ==
  /\ iop_in_cleanup
  /\ "curl_h" \notin inst["ioports"].held
  /\ "iop_ht" \in inst["ioports"].held
  /\ iop_mtx = "none"
  /\ inst' = [inst EXCEPT !["ioports"].held = @ \ {"iop_ht"}]
  /\ UNCHANGED <<cleanup_frame, host_vars, iop_mtx, thermal>>

\* g_mutex_clear(&plugin->iop_mtx)
iop_cleanup_mutex_clear ==
  /\ iop_in_cleanup
  /\ "iop_ht" \notin inst["ioports"].held
  /\ iop_mtx = "none"
  /\ iop_mtx' = "cleared"
  /\ UNCHANGED <<cleanup_frame, host_vars, inst, thermal>>

\* ax_event_handler_unsubscribe_and_notify and ax_event_handler_free, of
\* iopstate_evh first and of iopcfg_evh next
iop_cleanup_unsubscribe ==
  /\ iop_in_cleanup
  /\ iop_mtx = "cleared"
  /\ iop_subscriptions # {}
  /\ inst' = [inst EXCEPT !["ioports"].held =
                IF "iopstate_evh" \in @ THEN @ \ {"iopstate_evh"}
                ELSE @ \ {"iopcfg_evh", "event_subs"}]
  /\ UNCHANGED <<cleanup_frame, host_vars, iop_mtx, thermal>>

\* the g_free of the rest, ua_utils_clear_rbd and g_clear_pointer(&plugin);
\* opc_ua_destroy returns to free_plugins
iop_cleanup_free ==
  /\ iop_in_cleanup
  /\ iop_mtx = "cleared"
  /\ iop_subscriptions = {}
  /\ destroy_call("ioports")
  /\ host' = [host EXCEPT !.freed = @ + 1]
  /\ UNCHANGED <<thr, iop_mtx, iop_ht, heap, vin_states, event, access_level,
                 vin_reply, parentOf, customDataTypes, rbd, pc, attempt,
                 created, pre_nodes, pre_cdt, swapped, rb_calls, rb_ret,
                 last_call, cur, step, sticky, step_ids, trace, gerr, order,
                 active>>

NextTeardown ==
  \/ ax_event_deliver("iop_state_ev_cb")
  \/ cb_tests("main")
  \/ cb_lock("main")
  \/ cb_lookup("main")
  \/ iop_state_update("main")
  \/ cb_unlock("main")
  \/ cb_err_out("main")
  \/ run_ua_server_exit
  \/ host_signal
  \/ host_thread_join
  \/ iop_cleanup_curl
  \/ iop_cleanup_ht
  \/ iop_cleanup_mutex_clear
  \/ iop_cleanup_unsubscribe
  \/ iop_cleanup_free
  \/ (~iop_in_cleanup /\ host_free_plugins)
  \/ host_exit

SpecTeardown == InitCallbacks /\ [][NextTeardown]_vars

\* ---- the calls of a client on a virtual input ----

\* what the device can answer to activate.cgi or deactivate.cgi: no
\* response, a response vin_xml_parse rejects, an error response, success
\* without and with a change of state
Responses ==
  {"request_failed", "parse_failed", "VAPIX_ERR", "unchanged", "changed"}

\* vin_set_port_state that stores the state after every successful request
vin_set_port_state_stores(states, portnr, state, rsp) ==
  IF rsp \in {"unchanged", "changed"}
    THEN [ua_status |-> "GOOD",
          vin_states |-> [states EXCEPT ![portnr] = state]]
    ELSE [ua_status |-> "BAD", vin_states |-> states]

\* vin_set_port_state(.., portnr, state, .., vin_states, ..) when the device
\* answers `rsp`: the status it returns and the cache it leaves
vin_set_port_state_result(states, portnr, state, rsp) ==
  IF rsp \in {"unchanged", "changed"}
    THEN [ua_status |-> "GOOD",
          vin_states |-> IF rsp = "changed"
                           THEN [states EXCEPT ![portnr] = state]
                           ELSE states]
    ELSE [ua_status |-> "BAD", vin_states |-> states]

\* the dispatch thread is free to serve a client of vinput
vin_client_ready == serving("vin_ua_write_cb") /\ thr["dispatch"] = NoFrame

\* vin_ua_write_cb: a client writes new_state to the variable of a port
vin_ua_write_cb_call ==
  /\ vin_client_ready
  /\ \E portnr \in VinPorts, new_state \in BOOLEAN, rsp \in Responses :
       LET r == vin_set_port_state_result(vin_states, portnr, new_state, rsp)
       IN /\ vin_states' = r.vin_states
          /\ vin_reply' = [fn |-> "vin_ua_write_cb", rsp |-> rsp,
                           ua_status |-> r.ua_status,
                           before |-> vin_states, after |-> r.vin_states]
  /\ UNCHANGED <<launch_vars, thr, iop_mtx, iop_ht, heap, event,
                 access_level, thermal>>

\* vin_ua_activate_cb and vin_ua_deactivate_cb: BADOUTOFRANGE for a port_nr
\* outside the array, else vin_set_port_state and, if that was GOOD, the
\* copy of state_changed into the output
vin_ua_method_cb_call(fn) ==
  /\ vin_client_ready
  /\ \E port_nr \in ports(fn), rsp \in Responses, copied \in BOOLEAN :
       LET r == vin_set_port_state_result(vin_states, port_nr,
                                          fn = "vin_ua_activate_cb", rsp)
       IN IF port_nr \notin VinPorts
            THEN /\ UNCHANGED vin_states
                 /\ vin_reply' = [fn |-> fn, rsp |-> "none",
                                  ua_status |-> "BADOUTOFRANGE",
                                  before |-> vin_states,
                                  after |-> vin_states]
            ELSE /\ vin_states' = r.vin_states
                 /\ vin_reply' = [fn |-> fn, rsp |-> rsp,
                                  ua_status |->
                                    IF r.ua_status = "GOOD" /\ ~copied
                                      THEN "BADOUTOFMEMORY"
                                      ELSE r.ua_status,
                                  before |-> vin_states,
                                  after |-> r.vin_states]
  /\ UNCHANGED <<launch_vars, thr, iop_mtx, iop_ht, heap, event,
                 access_level, thermal>>

NextVinput ==
  \/ vin_ua_write_cb_call
  \/ \E fn \in {"vin_ua_activate_cb", "vin_ua_deactivate_cb"} :
       vin_ua_method_cb_call(fn)
  \/ ax_event_deliver("vin_event_cb")
  \/ cb_tests("main")
  \/ vin_states_store("main")
  \/ cb_err_out("main")

SpecVinput == InitCallbacks /\ [][NextVinput]_vars

\* ---- the timer and the method of thermal ----

\* check_counter: one more failed poll, and the end of the timer at
\* NBR_OF_RETRIES; `ret` is G_SOURCE_CONTINUE
check_counter(th) ==
  IF th.counter + 1 < NBR_OF_RETRIES
    THEN [th |-> [th EXCEPT !.counter = @ + 1], ret |-> TRUE]
    ELSE [th |-> [th EXCEPT !.counter = @ + 1, !.cb_id = 0], ret |-> FALSE]

\* update_thermal_cb returns `ret` to the main loop, which destroys the
\* source of a callback that returned G_SOURCE_REMOVE
update_thermal_return(th, ret) ==
  [th EXCEPT !.poll = "idle", !.installed = ret]

\* the timer and the method run for a constructed plugin
thermal_live == inst["thermal"].ptr = "live"

\* the main loop dispatches the timer
update_thermal_cb_enter ==
  /\ in_main_loop
  /\ thermal_live
  /\ thermal.installed
  /\ thermal.poll = "idle"
  /\ thr["main"] = NoFrame
  /\ thermal' = [thermal EXCEPT !.poll = "lock"]
  /\ UNCHANGED <<launch_vars, thr, iop_mtx, iop_ht, heap, vin_states, event,
                 access_level, vin_reply>>

\* g_mutex_lock(&plugin->curl_mutex)
update_thermal_lock ==
  /\ thermal.poll = "lock"
  /\ thermal.curl_mutex = "none"
  /\ thermal' = [thermal EXCEPT !.poll = "fetch", !.curl_mutex = "main"]
  /\ UNCHANGED <<launch_vars, thr, iop_mtx, iop_ht, heap, vin_states, event,
                 access_level, vin_reply>>

\* vapix_get_thermal_area_status returned: unlock, and check_counter if it
\* failed
update_thermal_fetch ==
  /\ thermal.poll = "fetch"
  /\ \E ok \in BOOLEAN :
       LET unlocked == [thermal EXCEPT !.curl_mutex = "none"]
           cc == check_counter(unlocked)
       IN thermal' = IF ok THEN [unlocked EXCEPT !.poll = "update"]
                     ELSE update_thermal_return(cc.th, cc.ret)
  /\ UNCHANGED <<launch_vars, thr, iop_mtx, iop_ht, heap, vin_states, event,
                 access_level, vin_reply>>

\* the loop of ua_server_update_thermal over the areas: G_SOURCE_REMOVE at
\* the first that fails, plugin->counter = 0 when none does
update_thermal_areas ==
  /\ thermal.poll = "update"
  /\ \E ok \in BOOLEAN :
       thermal' = IF ok
                    THEN update_thermal_return(
                           [thermal EXCEPT !.counter = 0], TRUE)
                    ELSE update_thermal_return(thermal, FALSE)
  /\ UNCHANGED <<launch_vars, thr, iop_mtx, iop_ht, heap, vin_states, event,
                 access_level, vin_reply>>

\* a client calls Set Scale: BADINVALIDARGUMENT for a scale that is neither
\* celsius nor fahrenheit
thermal_change_scale_cb_enter ==
  /\ host.thread = "running"
  /\ thermal_live
  /\ thermal.scale = "idle"
  /\ thr["dispatch"] = NoFrame
  /\ \E supported \in BOOLEAN :
       thermal' = IF supported
                    THEN [thermal EXCEPT !.scale = "lock"]
                    ELSE [thermal EXCEPT !.status = "BADINVALIDARGUMENT"]
  /\ UNCHANGED <<launch_vars, thr, iop_mtx, iop_ht, heap, vin_states, event,
                 access_level, vin_reply>>

\* thermal_change_scale_cb that goes on without the mutex
thermal_change_scale_lock_skipped(th) ==
  [th EXCEPT !.scale = "request"]

\* g_mutex_lock(&plugin->curl_mutex) of thermal_change_scale_cb, which
\* returns once no thread holds the mutex
thermal_change_scale_lock(th) ==
  IF th.curl_mutex = "none"
    THEN [th EXCEPT !.scale = "request", !.curl_mutex = "dispatch"]
    ELSE th

thermal_change_scale_cb_lock ==
  /\ thermal.scale = "lock"
  /\ thermal_change_scale_lock(thermal) # thermal
  /\ thermal' = thermal_change_scale_lock(thermal)
  /\ UNCHANGED <<launch_vars, thr, iop_mtx, iop_ht, heap, vin_states, event,
                 access_level, vin_reply>>

\* vapix_set_temperature_scale returned: BADCOMMUNICATIONERROR if it failed,
\* unlock, return
thermal_change_scale_cb_request ==
  /\ thermal.scale = "request"
  /\ \E ok \in BOOLEAN :
       thermal' = [thermal EXCEPT
                     !.scale = "idle",
                     !.curl_mutex = IF @ = "dispatch" THEN "none" ELSE @,
                     !.status = IF ok THEN "GOOD"
                                ELSE "BADCOMMUNICATIONERROR"]
  /\ UNCHANGED <<launch_vars, thr, iop_mtx, iop_ht, heap, vin_states, event,
                 access_level, vin_reply>>

\* the main loop runs and the dispatch thread started with thermal alone
\* loaded: the state SpecPlugins reaches for plugin_get_names =
\* <<"thermal">> when no call fails
InitThermal ==
  /\ nodes = NS0Nodes \cup 1..4
  /\ parentOf = [n \in AllIds \cup PluginIds |->
                   IF n = 1 THEN 85
                   ELSE IF n \in {2, 3} THEN 1
                   ELSE IF n = 4 THEN 3
                   ELSE NullId]
  /\ customDataTypes = NullCdt
  /\ rbd = NullRbd
  /\ pc = "idle"
  /\ attempt = 0
  /\ created = <<>>
  /\ pre_nodes = NS0Nodes
  /\ pre_cdt = NullCdt
  /\ swapped = FALSE
  /\ rb_calls = <<>>
  /\ rb_ret = NoRollback
  /\ last_call = NoCall
  /\ inst = [p \in PluginNames |->
               IF p = "thermal"
                 THEN [ptr |-> "live", rbd |-> NullRbd,
                       held |-> {"cb_id", "curl_h", "vapix_credentials"}]
               ELSE NoInst]
  /\ cur = "none"
  /\ step = 0
  /\ sticky = Good
  /\ step_ids = NoSteps
  /\ trace = <<>>
  /\ gerr = FALSE
  /\ order = <<[name |-> "thermal", result |-> "created"]>>
  /\ active = <<"thermal">>
  /\ host = [NoHost EXCEPT !.lstep = Len(launch_ua_server) + 1,
                           !.server = "live",
                           !.running = TRUE,
                           !.thread = "running",
                           !.names = <<"thermal">>,
                           !.modules = <<Complete>>,
                           !.made = 1,
                           !.permanent = 1..4]
  /\ destroy_log = <<>>
  /\ thr = [t \in Threads |-> NoFrame]
  /\ iop_mtx = "none"
  /\ iop_ht = NoPort
  /\ heap = {}
  /\ vin_states = [p \in 1..MaxPorts |-> FALSE]
  /\ event = NoEvent
  /\ access_level = "READ"
  /\ thermal = g_timeout_add_seconds(NoThermal)
  /\ vin_reply = NoReply

NextThermal ==
  \/ update_thermal_cb_enter
  \/ update_thermal_lock
  \/ update_thermal_fetch
  \/ update_thermal_areas
  \/ thermal_change_scale_cb_enter
  \/ thermal_change_scale_cb_lock
  \/ thermal_change_scale_cb_request
  \/ run_ua_server_exit
  \/ host_signal
  \/ host_thread_join
  \/ host_free_plugins
  \/ host_exit

SpecThermal == InitThermal /\ [][NextThermal]_vars

TypeOK ==
  /\ nodes \subseteq AllIds \cup PluginIds
  /\ host.server = "live" => NS0Nodes \subseteq nodes
  /\ parentOf \in [AllIds \cup PluginIds -> AllIds \cup PluginIds \cup {NullId}]
  /\ rbd.allocated \in BOOLEAN
  /\ Range(rbd.node_ids) \subseteq NodeIds
  /\ pc \in {"idle", "populating", "err_out", "rolled_back", "failed",
             "committed", "create", "cleanup", "return_false"}
  /\ attempt \in 0..MaxAttempts
  /\ cur \in PluginNames \cup {"none"}
  /\ step \in 0..(MaxSteps + 1)
  /\ Len(order) <= MaxLoad
  /\ host.at \in {"launch", "cleanup", "join", "free_plugins", "exit"}
  /\ access_level \in AccessLevels
  /\ thermal.counter \in 0..NBR_OF_RETRIES
  /\ thermal.cb_id \in {0, 1}
  /\ thermal.installed \in BOOLEAN
  /\ thermal.curl_mutex \in {"none", "main", "dispatch"}
  /\ vin_reply.rsp \in Responses \cup {"none"}

(* ------------------------------ claims --------------------------------- *)

\* the last facade call created a node in the store and still failed
append_failed ==
  last_call.made /\ last_call.store_status = Good /\ last_call.status # Good

\* ids created by the facade calls that returned success, oldest first
succeeded_ids ==
  IF append_failed
    THEN SubSeq(created_ids, 1, Len(created_ids) - 1)
    ELSE created_ids

\* ids of the delete calls the executor issued, in the order of the calls
delete_ids ==
  LET d == SelectSeq(rb_calls, LAMBDA c : c.op = "deleteNode")
  IN [i \in 1..Len(d) |-> d[i].id]

IsPrefix(s, t) == Len(s) <= Len(t) /\ SubSeq(t, 1, Len(s)) = s

\* C1: after N successful facade calls and one failing facade call, once the
\* executor has run (and reported success) the graph holds exactly the nodes
\* it held before the attempt.
C1_RollbackCompleteness ==
  (pc = "rolled_back" /\ rb_ret.ret /\ last_call.made
     /\ last_call.status # Good)
    => nodes = pre_nodes

\* C2: the executor issues its delete calls in the reverse of the order in
\* which the successful facade calls created the nodes (all of them when no
\* delete is refused), so a child is deleted before the parent it was
\* created under.
C2_ReverseOrderDeletion ==
  pc = "rolled_back" =>
    /\ IsPrefix(delete_ids, Reverse(succeeded_ids))
    /\ rb_ret.ret => delete_ids = Reverse(succeeded_ids)
    /\ \A i, j \in 1..Len(delete_ids) :
         (\E c \in Range(created) :
            c.id = delete_ids[i] /\ c.parent = delete_ids[j]) => i < j

C2_Witness ==
  /\ pc = "rolled_back"
  /\ rb_ret.ret
  /\ Len(delete_ids) >= 2
  /\ \E c \in Range(created) :
       c.id = delete_ids[1] /\ c.parent = delete_ids[2]

\* C3: when the ledger holds a saved registry snapshot, the executor's first
\* call to the store sets the registry back to it, and every delete call
\* comes after that.
C3_RestoreBeforeDelete ==
  (pc = "rolled_back" /\ rbd.saved_cdt # NullCdt) =>
    /\ Len(rb_calls) >= 1
    /\ rb_calls[1].op = "set_customDataTypes"
    /\ \A i \in 2..Len(rb_calls) : rb_calls[i].op = "deleteNode"
    /\ customDataTypes = rbd.saved_cdt

C3_Witness ==
  /\ pc = "rolled_back"
  /\ rbd.saved_cdt # NullCdt
  /\ Len(delete_ids) >= 1

\* C4: an attempt that replaced the registry and was rolled back leaves the
\* registry equal to what was active before the attempt, whatever that was.
C4_RegistryRestoredVerbatim ==
  (pc = "rolled_back" /\ swapped) => customDataTypes = pre_cdt

\* C5: while an attempt is under way, every node one of its facade calls
\* created in the store is recorded in its ledger.
C5_LedgerComplete ==
  pc \in {"populating", "err_out"} =>
    Range(created_ids) \subseteq Range(rbd.node_ids)

\* C6: a node the store created but the ledger could not record is not in
\* the graph once the attempt has been rolled back.
C6_NoLeakOnAppendFailure ==
  (pc = "rolled_back" /\ rb_ret.ret /\ append_failed)
    => last_call.store_id \notin nodes

\* C7: after an all-success sequence and clear(), the executor issued no
\* call to the store, the ledger holds no identifier and no snapshot, and
\* every node the sequence created is in the graph.
C7_CommitDiscards ==
  pc = "committed" =>
    /\ rb_calls = <<>>
    /\ ~rb_ret.ran
    /\ rbd.node_ids = <<>>
    /\ rbd.saved_cdt = NullCdt
    /\ Range(created_ids) \subseteq nodes

C7_Witness ==
  /\ pc = "committed"
  /\ Len(created) >= 2
  /\ swapped
  /\ pre_cdt # NullCdt

\* C8: when the store rejects a creation, the facade returns the store's
\* code and the ledger is what it was before the call.
C8_FacadeFailure ==
  (pc = "err_out" /\ last_call.made /\ last_call.store_status # Good) =>
    /\ last_call.status = last_call.store_status
    /\ rbd = last_call.rbd_before
    /\ last_call.out = NullId

C8_Witness ==
  /\ pc = "err_out"
  /\ last_call.made
  /\ last_call.store_status = BadNodeIdExists
  /\ Len(rbd.node_ids) >= 1

\* C9: when the store accepts a creation, the ledger grows by exactly the
\* new identifier, and the output slot, if given, holds it.
C9_FacadeSuccess ==
  (pc \in {"populating", "err_out"} /\ last_call.made
     /\ last_call.store_status = Good) =>
    /\ rbd.node_ids = <<last_call.store_id>> \o last_call.rbd_before.node_ids
    /\ rbd.saved_cdt = last_call.rbd_before.saved_cdt
    /\ last_call.want_out => last_call.out = last_call.store_id

\* C10: in a plugin that opens a ledger, a constructor that returns failure
\* after the ledger was opened has first run the Rollback Executor on that
\* ledger and then plugin_cleanup, which leaves no non-graph resource held,
\* before the failure reaches the host.
C10_RollbackOnFailedPopulate ==
  (/\ pc = "idle"
   /\ cur \in LedgerPlugins
   /\ trace # <<>>
   /\ trace[Len(trace)] = "return_false")
  => /\ trace = <<"open", "do_rollback", "plugin_cleanup", "return_false">>
     /\ inst[cur].held = {}

\* the constructor of the plugin `cur` has just returned FALSE to the host
returned_failure ==
  /\ pc = "idle"
  /\ cur # "none"
  /\ trace # <<>>
  /\ trace[Len(trace)] = "return_false"

\* C11: for every shipped plugin, when its constructor returns failure the
\* graph holds none of the nodes that this constructor call created.
C11_FailedPluginAbsent ==
  returned_failure => Range(created_ids) \cap nodes = {}

\* the names of the modules the host has tried, and of those among them
\* whose constructor returned TRUE
tried == [i \in 1..Len(order) |-> order[i].name]
created_plugins ==
  LET ok == SelectSeq(order, LAMBDA e : e.result = "created")
  IN [i \in 1..Len(ok) |-> ok[i].name]

\* C12: a plugin that fails to load or whose constructor returns failure is
\* not added to ctx->plugins (the active set is exactly the plugins whose
\* constructor returned TRUE, in order); the failure does not send the host
\* to cleanup; and once launch_ua_server has returned, every module found was
\* tried and the server thread was started.
C12_FailureContainment ==
  /\ active = created_plugins
  /\ host.at = "cleanup" => order = <<>>
  /\ in_main_loop => (tried = host.names /\ host.thread # "none")

\* the first module failed, the second was still tried and is active, and
\* the server was started
C12_Witness ==
  /\ in_main_loop
  /\ host.thread = "running"
  /\ Len(order) = 2
  /\ order[1].result \in {"load_failed", "create_failed"}
  /\ order[2].result = "created"
  /\ active = <<order[2].name>>

\* C13: the dispatch thread runs only once every constructor has returned:
\* while it runs no constructor is in progress (so no call of the Rollback
\* Executor is pending or running) and no module is left to try.
C13_DispatchAfterPopulate ==
  host.thread = "running" =>
    (pc = "idle" /\ tried = host.names /\ ~in_launch("init_ua_plugin"))

\* the thread runs after a ledger plugin failed and was rolled back
C13_Witness ==
  /\ host.thread = "running"
  /\ \E i \in 1..Len(order) :
       order[i].result = "create_failed" /\ order[i].name \in LedgerPlugins

\* the constructor of the module named in a destroy_log entry had failed
\* and, in a ledger plugin, had gone through err_out
destroyed_after_failure(e) ==
  /\ e.before # "live"
  /\ \E i \in 1..Len(order) :
       order[i].name = e.name /\ order[i].result = "create_failed"

\* C14: opc_ua_destroy called on a plugin whose constructor failed and was
\* rolled back issues no delete call to the store and does not work on the
\* plugin instance that the failed constructor already released.
C14_IdempotentDestroy ==
  \A i \in 1..Len(destroy_log) :
    destroyed_after_failure(destroy_log[i]) =>
      /\ destroy_log[i].deletes = <<>>
      /\ destroy_log[i].effect = "none"

\* C15: no call of opc_ua_destroy, in whatever state of the plugin, issues a
\* delete call to the store, and the nodes of the plugins whose constructor
\* returned TRUE are in the graph for as long as the server exists.
C15_DestroyKeepsNodes ==
  /\ \A i \in 1..Len(destroy_log) : destroy_log[i].deletes = <<>>
  /\ host.server = "live" => host.permanent \subseteq nodes

\* a committed plugin was destroyed while the server exists, and its nodes
\* are still in the graph
C15_Witness ==
  /\ host.server = "live"
  /\ host.permanent # {}
  /\ host.permanent \subseteq nodes
  /\ \E i \in 1..Len(destroy_log) :
       destroy_log[i].name \in Range(active) /\ destroy_log[i].before = "live"

\* C16: when a delete call fails during rollback the executor stops there:
\* it returns FALSE with an error that carries the code of the refusal and
\* the id of the refused node, the refused call is its last call, and the
\* remaining ledger entries are still in the graph.
C16_ExecutorFailure ==
  (pc = "rolled_back" /\ ~rb_ret.ret) =>
    LET d == delete_ids
    IN /\ d # <<>>
       /\ IsPrefix(d, rbd.node_ids)
       /\ \A i \in Len(d)..Len(rbd.node_ids) : rbd.node_ids[i] \in nodes
       /\ rb_ret.err.set
       /\ rb_ret.err.status \in StoreRejections
       /\ rb_ret.err.id = d[Len(d)]

\* the plugin's builder replaces the registry (ioports_ns)
registers_types(p) ==
  \E k \in 1..Len(program(p)) : program(p)[k].kind = "swap"

\* C20: once a plugin that registered custom types has returned TRUE, the
\* registry of the server is that plugin's type array chained to the
\* registry it found, for as long as the server exists: the clear at its
\* commit, a call of opc_ua_destroy and the rollback of another plugin's
\* attempt all leave it in place.
C20_CommitLeavesRegistry ==
  \A i \in 1..Len(order) :
    (/\ order[i].result = "created"
     /\ registers_types(order[i].name)
     /\ host.server = "live")
      => customDataTypes = <<order[i].name>> \o NullCdt

\* ioports committed, a later ledger plugin failed and was rolled back and
\* ioports was destroyed, with the server still there
C20_Witness ==
  /\ host.server = "live"
  /\ Len(order) = MaxLoad
  /\ order[1].result = "created" /\ registers_types(order[1].name)
  /\ order[MaxLoad].result = "create_failed"
  /\ order[MaxLoad].name \in LedgerPlugins
  /\ \E j \in 1..Len(destroy_log) : destroy_log[j].name = order[1].name
  /\ customDataTypes = <<order[1].name>>

\* thread t is in a statement that reads or writes `cache`
in_access(t, cache) == at_op(t, "access") /\ now(t).cache = cache

\* C17: whenever the main-loop thread (an event callback of ioports) or the
\* dispatch thread (a data-source handler of ioports) is in a statement
\* that reads or writes a cached port record, the contents of its name and
\* usage strings included, that thread holds iop_mtx.
C17_IoportsCacheLocked ==
  \A t \in Threads : in_access(t, "iop_ht") => iop_mtx = t

\* C18: the event callback of vinput on the main-loop thread and a read,
\* write or method handler of vinput on the dispatch thread are never both
\* in an access to the cached state of the same port.
C18_VinputCacheExclusive ==
  ~(/\ in_access("main", "vin_states")
    /\ in_access("dispatch", "vin_states")
    /\ thr["main"].port = thr["dispatch"].port)

\* C19: an invocation of an event callback that has ended, on whatever
\* path, released the event it was given once, and no invocation releases
\* it more than once.
C19_EventReleasedOnce ==
  /\ event.released <= 1
  /\ (event.cb # "none" /\ event.ended # "pending") => event.released = 1

\* what a plugin registers with the host environment: the GLib timer of
\* thermal and the AXEvent subscriptions of vinput, simple_event and ioports
Registrations == {"cb_id", "event_subscription", "sub_id", "event_subs"}

\* C21: once opc_ua_destroy of a plugin whose constructor returned TRUE has
\* returned, that plugin holds no timer and no event subscription.
C21_DestroyReleasesRegistrations ==
  \A i \in 1..Len(destroy_log) :
    destroy_log[i].before = "live" =>
      inst[destroy_log[i].name].held \cap Registrations = {}

\* thermal, which registered its timer, was destroyed as an active plugin
C21_Witness ==
  \E i \in 1..Len(destroy_log) :
    /\ destroy_log[i].before = "live"
    /\ destroy_log[i].name = "thermal"
    /\ destroy_log[i].name \in Range(active)
    /\ inst["thermal"].held = {}

\* C22: the delete calls of a plugin's rollback name only nodes that the
\* store created during that plugin's own attempt, none that was in the
\* graph when the attempt started, and the nodes of the plugins that
\* returned TRUE before are in the graph for as long as the server exists.
C22_LedgerIsolation ==
  /\ Range(delete_ids) \subseteq Range(created_ids)
  /\ Range(delete_ids) \cap pre_nodes = {}
  /\ host.server = "live" => host.permanent \subseteq nodes

\* a rollback issued delete calls after an earlier plugin had committed
\* nodes, and those nodes are in the graph
C22_Witness ==
  /\ rb_ret.ran
  /\ delete_ids # <<>>
  /\ host.server = "live"
  /\ host.permanent # {}
  /\ host.permanent \subseteq nodes
  /\ Len(order) = MaxLoad
  /\ order[1].result = "created"
  /\ order[MaxLoad].result = "create_failed"

\* the module of the i-th name lacks one of the three entry points
lacks_entry_point(i) ==
  host.modules[i].opens /\ ~(EntryPoints \subseteq host.modules[i].symbols)

\* C23: a module that lacks one of the three entry points fails at load
\* time: its constructor is never entered (no instance, no ledger), it is
\* recorded as a load failure, and the step of the host that handles it
\* leaves the graph, the registry and every plugin instance as they were.
C23_LoadTimeFailure ==
  /\ [](\A i \in 1..Len(host.names) :
          lacks_entry_point(i) =>
            /\ inst[host.names[i]] = NoInst
            /\ cur # host.names[i]
            /\ i <= Len(order) => order[i].result = "load_failed")
  /\ [][(Len(order') = Len(order) + 1 /\ lacks_entry_point(Len(order')))
          => UNCHANGED <<nodes, parentOf, customDataTypes, inst>>]_vars

\* the host has gone past a module without opc_ua_destroy and created the
\* plugin after it
C23_Witness ==
  /\ Len(order) = MaxLoad
  /\ host.modules[1].opens
  /\ "opc_ua_destroy" \notin host.modules[1].symbols
  /\ order[1].result = "load_failed"
  /\ order[MaxLoad].result = "created"

\* C24: whenever no constructor is running (each one that was entered has
\* returned, with success or with failure), no plugin holds an allocated
\* ledger: it was consumed by the rollback and destroyed, or discarded.
C24_LedgerNeverOutlivesPopulate ==
  pc = "idle" => \A p \in LedgerPlugins : ~inst[p].rbd.allocated

\* the constructor is at a call that changes the graph: a node creation, a
\* reference addition, a write or a data-source binding
at_graph_call ==
  /\ pc = "create"
  /\ step <= Len(program(cur))
  /\ the_step.kind \in {"facade", "store", "direct"}

\* C25: within one construction attempt, once a facade call has returned
\* failure the constructor is at no further graph-mutating call: the next
\* thing it does to the graph is the rollback.
C25_StopAtFirstFailure ==
  (last_call.made /\ last_call.status # Good) => ~at_graph_call

\* the facade call of step k of the running constructor returned success:
\* the store created the node and the ledger took its id
facade_succeeded(k) ==
  /\ k < step
  /\ program(cur)[k].kind = "facade"
  /\ step_ids[k] \in Range(created_ids)
  /\ step_ids[k] \in Range(inst[cur].rbd.node_ids)

\* C26: whenever a builder is at a facade call, the parent it passes is a
\* node that existed before the attempt started, or the node of an earlier
\* facade call of the same attempt that returned success.
C26_ParentBeforeChild ==
  in_step("facade") =>
    IF the_step.parent = 0
      THEN step_node(step_ids, the_step.parent) \in pre_nodes
      ELSE facade_succeeded(the_step.parent)

\* thermal has added its object, an area under it and the area's variable:
\* two facade calls whose parent was created earlier in the attempt
C26_Witness ==
  /\ cur = "thermal"
  /\ pc = "create"
  /\ step = Len(thermal_create)
  /\ step_ids[8] \in nodes
  /\ parentOf[step_ids[8]] = step_ids[7]
  /\ parentOf[step_ids[7]] = step_ids[4]

\* C27: whenever a constructor has returned failure to the host, the error
\* it hands back is set.
C27_FailureCarriesContext ==
  returned_failure => gerr

\* the constructor of `cur` has returned FALSE after its rollback failed
rollback_failed_returned ==
  /\ returned_failure
  /\ order # <<>>
  /\ order[Len(order)].name = cur
  /\ rb_ret.ran
  /\ ~rb_ret.ret

\* C28: when the Rollback Executor fails, the constructor has still torn
\* down its non-graph resources and returned failure to a host that is
\* still launching, and from there the host gets to start the server.
C28_RollbackFailureGoesOn ==
  /\ [](rollback_failed_returned =>
          /\ inst[cur] = NoInst
          /\ order[Len(order)].result = "create_failed"
          /\ in_launch("init_ua_plugin")
          /\ host.server = "live")
  /\ (rollback_failed_returned ~> host.thread = "running")

\* the rollback of the first plugin has failed and another plugin is still
\* to be loaded
C28_Witness ==
  /\ rollback_failed_returned
  /\ Len(order) < Len(host.names)

\* the steps of the constructor of p that add a node
adding_steps(p) ==
  {k \in 1..Len(program(p)) : program(p)[k].kind \in {"facade", "direct"}}

\* every node the constructor of `cur` adds was created in its attempt and
\* is in the graph
populated ==
  /\ Len(created) = Cardinality(adding_steps(cur))
  /\ Range(created_ids) \subseteq nodes

\* C29: whenever a constructor has just returned TRUE, on its first call or
\* on a call that follows a failed attempt, every node of that plugin is in
\* the graph.
C29_SuccessImpliesPopulated ==
  (/\ pc = "idle"
   /\ cur # "none"
   /\ trace # <<>>
   /\ trace[Len(trace)] = "return_true")
  => populated

\* the calls of the event callbacks that go into the server through
\* plugin->server
ServerCalls ==
  {"iop_ua_get_nodeid_from_browsename", "iop_ua_create_event",
   "UA_Server_triggerEvent"}

\* thread t is at a statement that calls into the server
in_server_call(t) ==
  /\ alive
  /\ thr[t].fn # "idle"
  /\ now(t).calls \cap ServerCalls # {}

\* C30: no event callback of an active plugin is at a call into the server
\* once the server object has been deleted.
C30_NoUseAfterServerDelete ==
  \A t \in Threads : in_server_call(t) => host.server = "live"

\* C31: the server object is never deleted more often than it was created,
\* and once cleanup has finished a server that was created has been deleted
\* exactly once, by the server thread or by cleanup and never by both.
C31_ServerDeletedOnce ==
  /\ host.deleted <= host.made
  /\ host.at = "exit" => host.deleted = host.made

\* the server was started, the thread has deleted it, and cleanup has
\* joined the thread and finished
C31_Witness ==
  /\ host.at = "exit"
  /\ host.thread = "joined"
  /\ host.running = FALSE
  /\ host.made > 0
  /\ host.deleted = host.made

\* no callback and no handler is running
quiescent == \A t \in Threads : thr[t] = NoFrame

\* C32: whenever the writes of Direction and the configuration events so
\* far have all returned, the State property of the port is writable
\* exactly when the port is enabled and its cached direction is Output.
C32_DirectionAgreesWithState ==
  (alive /\ quiescent) =>
    (access_level = "READ|WRITE"
       <=> (~iop_ht.readonly /\ iop_ht.direction = "OUTPUT"))

\* C33: every access to the cache of virtual-input states uses an index
\* inside the array, whatever port number the event or the client's request
\* carried.
C33_VinIndexInRange ==
  \A t \in Threads : in_access(t, "vin_states") => thr[t].port \in VinPorts

\* update_thermal_cb returns in this step
poll_returns == thermal.poll # "idle" /\ thermal'.poll = "idle"

\* C34: a poll that returns with fewer than NBR_OF_RETRIES consecutive
\* failed fetches leaves the timer in the main loop, a poll that returns
\* with NBR_OF_RETRIES of them has removed it, and a poll whose fetch and
\* updates all succeeded returns with the count at zero.
C34_PollingRetryBound ==
  [][poll_returns =>
       /\ thermal'.counter < NBR_OF_RETRIES => thermal'.installed
       /\ thermal'.counter >= NBR_OF_RETRIES => ~thermal'.installed
       /\ (thermal.poll = "update" /\ thermal'.installed)
            => thermal'.counter = 0]_vars

\* C36: between two runs of the timer callback plugin->cb_id is not 0
\* exactly when the main loop still has the timer, and plugin_cleanup never
\* calls g_source_remove for a timer the main loop no longer has.
C36_TimerIdTracksTimer ==
  /\ thermal.poll = "idle" => (thermal.cb_id # 0 <=> thermal.installed)
  /\ thermal.removed # "not_found"

\* C38: the timer callback is never inside vapix_get_thermal_area_status
\* while the Set Scale method is inside vapix_set_temperature_scale.
C38_OneRequestAtATime ==
  ~(thermal.poll = "fetch" /\ thermal.scale = "request")

\* Set Scale performs its request while the timer callback waits for the
\* mutex
C38_Witness ==
  /\ thermal.scale = "request"
  /\ thermal.curl_mutex = "dispatch"
  /\ thermal.poll = "lock"

\* C35: the last call of a client on a virtual input changed the cache
\* only if the device reported success with a change of state, and if the
\* request or the parsing of its response failed the cache is as it was
\* and the status returned is not GOOD.
C35_CacheChangesOnlyOnConfirmedChange ==
  vin_reply.fn # "none" =>
    /\ vin_reply.after # vin_reply.before => vin_reply.rsp = "changed"
    /\ vin_reply.rsp \in {"request_failed", "parse_failed"}
         => /\ vin_reply.after = vin_reply.before
            /\ vin_reply.ua_status # "GOOD"

\* a client's write was confirmed by the device and changed the cache
C35_Witness ==
  /\ vin_reply.fn = "vin_ua_write_cb"
  /\ vin_reply.rsp = "changed"
  /\ vin_reply.ua_status = "GOOD"
  /\ vin_reply.after # vin_reply.before

\* C37: once plugin_cleanup of ioports has released the port cache and
\* cleared its mutex, ioports holds no event subscription and no thread is
\* inside, or waits at the lock of, one of its event callbacks.
C37_NoCallbackAfterTeardown ==
  iop_mtx = "cleared" =>
    /\ iop_subscriptions = {}
    /\ \A t \in Threads :
         thr[t].fn \notin {"iop_state_ev_cb", "iop_cfg_ev_cb"}

====
